---------------------------- MODULE Spec2Model ----------------------------
(***************************************************************************)
(* Model of the pvload/pvsave checker of epicsutil: the lexer (pvlexer.py), *)
(* the recursive descent parser (pvparser.py) and the driver (pvcheck.py).  *)
(*                                                                          *)
(* Text is modelled character by character: a line is a sequence of one     *)
(* character strings, and the lexer's regular expressions are matched on    *)
(* it as Python's re module matches them.  Every parser method is an        *)
(* operator from a parser state to a parser state; the state carries the    *)
(* object's fields, the pending exception (exc) and the return value (ret). *)
(***************************************************************************)
EXTENDS Integers, Sequences, FiniteSets

(***************************************************************************)
(* Token identifiers (pvlexer.py)                                           *)
(***************************************************************************)
TOKEN_NONE == 0
TOKEN_EOF == 1
TOKEN_WHITESPACE == 2
TOKEN_COMMENT == 3
TOKEN_NUMBER == 10
TOKEN_INTEGER == 11
TOKEN_FLOAT == 12
TOKEN_STRING == 13
TOKEN_PVNAME == 14
TOKEN_TYPE == 20
TOKEN_UNIT == 21
TOKEN_GROUP == 22
TOKEN_SLEEP == 23
TOKEN_SEMICOLON == 30
TOKEN_COMMA == 31
TOKEN_EQUALS == 32
TOKEN_TIMES == 33
TOKEN_DIVIDED == 34
TOKEN_PERCENT == 35
TOKEN_LEFT_BRACE == 40
TOKEN_RIGHT_BRACE == 41
TOKEN_LEFT_BRACKET == 42
TOKEN_RIGHT_BRACKET == 43
TOKEN_ERROR == -1

(***************************************************************************)
(* Basic data types of a single statement (pvparser.py)                     *)
(***************************************************************************)
TYPE_NONE == 0
TYPE_INTEGER == 1
TYPE_FLOAT == 2
TYPE_STRING == 3

(***************************************************************************)
(* Character classes of the regular expressions                             *)
(***************************************************************************)
Digit == {"0", "1", "2", "3", "4", "5", "6", "7", "8", "9"}

HexDigit == Digit \cup {"a", "b", "c", "d", "e", "f", "A", "B", "C", "D", "E", "F"}

Lower == {"a", "b", "c", "d", "e", "f", "g", "h", "i", "j", "k", "l", "m",
          "n", "o", "p", "q", "r", "s", "t", "u", "v", "w", "x", "y", "z"}

Upper == {"A", "B", "C", "D", "E", "F", "G", "H", "I", "J", "K", "L", "M",
          "N", "O", "P", "Q", "R", "S", "T", "U", "V", "W", "X", "Y", "Z"}

\* \w
WordChar == Lower \cup Upper \cup Digit \cup {"_"}

\* [\w:\(\)\$]
NameChar == WordChar \cup {":", "(", ")", "$"}

\* \s
Space == {" ", "\t"}

(***************************************************************************)
(* Regular expressions.  A pattern is a tree; Ends gives the positions at   *)
(* which a match of the pattern that starts at pos can end, in the order in *)
(* which Python's backtracking matcher tries them (greedy repetition, the   *)
(* first alternative first), so that re.match takes the first of them.      *)
(***************************************************************************)
Ch(set) == [op |-> "ch", set |-> set, word |-> <<>>, args |-> <<>>]

AnyChar == [op |-> "any", set |-> {}, word |-> <<>>, args |-> <<>>]

Lit(word) == [op |-> "lit", set |-> {}, word |-> word, args |-> <<>>]

Cat(args) == [op |-> "cat", set |-> {}, word |-> <<>>, args |-> args]

Alt(args) == [op |-> "alt", set |-> {}, word |-> <<>>, args |-> args]

Opt(re) == [op |-> "opt", set |-> {}, word |-> <<>>, args |-> <<re>>]

Plus(re) == [op |-> "plus", set |-> {}, word |-> <<>>, args |-> <<re>>]

Star(re) == [op |-> "star", set |-> {}, word |-> <<>>, args |-> <<re>>]

\* re*?
Lazy(re) == [op |-> "lazy", set |-> {}, word |-> <<>>, args |-> <<re>>]

CharAt(line, pos) == IF pos >= 1 /\ pos <= Len(line) THEN line[pos] ELSE ""

HasPrefix(line, pos, word) ==
    /\ pos + Len(word) - 1 <= Len(line)
    /\ \A i \in 1..Len(word) : line[pos + i - 1] = word[i]

\* a pattern of one character (a class or the dot) matches the character c
Matches(re, c) == IF re.op = "any" THEN TRUE ELSE c \in re.set

\* the length of the longest run of characters from pos that re matches
Run(re, line, pos) ==
    CHOOSE k \in 0..(Len(line) - pos + 1) :
        /\ \A j \in 0..(k - 1) : Matches(re, line[pos + j])
        /\ (pos + k > Len(line) \/ ~Matches(re, line[pos + k]))

\* greedy repetition of a one-character pattern: the longest run first, then
\* one character less at a time down to least repetitions
Repeat(re, line, pos, least) ==
    [i \in 1..(Run(re, line, pos) - least + 1) |-> pos + Run(re, line, pos) + 1 - i]

Reverse(s) == [i \in 1..Len(s) |-> s[Len(s) + 1 - i]]

RECURSIVE Ends(_, _, _)
RECURSIVE EndsCat(_, _, _, _)
RECURSIVE EndsAlt(_, _, _, _)
RECURSIVE EndsEach(_, _, _, _, _)

Ends(re, line, pos) ==
    CASE re.op = "ch" -> IF CharAt(line, pos) \in re.set THEN <<pos + 1>> ELSE <<>>
      [] re.op = "any" -> IF pos <= Len(line) THEN <<pos + 1>> ELSE <<>>
      [] re.op = "lit" -> IF HasPrefix(line, pos, re.word) THEN <<pos + Len(re.word)>> ELSE <<>>
      [] re.op = "cat" -> EndsCat(re.args, 1, line, <<pos>>)
      [] re.op = "alt" -> EndsAlt(re.args, 1, line, pos)
      [] re.op = "opt" -> Ends(re.args[1], line, pos) \o <<pos>>
      [] re.op = "plus" -> Repeat(re.args[1], line, pos, 1)
      [] re.op = "star" -> Repeat(re.args[1], line, pos, 0)
      [] re.op = "lazy" -> Reverse(Repeat(re.args[1], line, pos, 0))

\* r1 r2 ...: the rest of the sequence, from every end of its beginning
EndsCat(args, i, line, starts) ==
    IF i > Len(args) THEN starts
    ELSE EndsCat(args, i + 1, line, EndsEach(args[i], line, starts, 1, Len(starts)))

\* r1|r2|...
EndsAlt(args, i, line, pos) ==
    IF i > Len(args) THEN <<>>
    ELSE Ends(args[i], line, pos) \o EndsAlt(args, i + 1, line, pos)

\* the ends of re from starts[lo], then from starts[lo + 1], ... starts[hi]
EndsEach(re, line, starts, lo, hi) ==
    IF lo > hi THEN <<>>
    ELSE IF lo = hi THEN Ends(re, line, starts[lo])
    ELSE EndsEach(re, line, starts, lo, (lo + hi) \div 2)
            \o EndsEach(re, line, starts, (lo + hi) \div 2 + 1, hi)

FirstEnd(ends, pos) == IF ends = <<>> THEN 0 ELSE Head(ends) - pos

\* re.match(line, pos): the length of the match, 0 for no match (no pattern
\* of the lexer matches the empty string)
ReMatch(re, line, pos) == FirstEnd(Ends(re, line, pos), pos)

\* the pattern matches all of text
FullMatch(re, text) == \E i \in 1..Len(Ends(re, text, 1)) : Ends(re, text, 1)[i] = Len(text) + 1

(***************************************************************************)
(* The reserved words, as character sequences                               *)
(***************************************************************************)
w_string == <<"s", "t", "r", "i", "n", "g">>
w_int == <<"i", "n", "t">>
w_short == <<"s", "h", "o", "r", "t">>
w_float == <<"f", "l", "o", "a", "t">>
w_enum == <<"e", "n", "u", "m">>
w_char == <<"c", "h", "a", "r">>
w_long == <<"l", "o", "n", "g">>
w_double == <<"d", "o", "u", "b", "l", "e">>
w_arcsec == <<"a", "r", "c", "s", "e", "c">>
w_deg == <<"d", "e", "g">>
w_microns == <<"m", "i", "c", "r", "o", "n", "s">>
w_um == <<"u", "m">>
w_millimeters == <<"m", "i", "l", "l", "i", "m", "e", "t", "e", "r", "s">>
w_millimetres == <<"m", "i", "l", "l", "i", "m", "e", "t", "r", "e", "s">>
w_mm == <<"m", "m">>
w_meters == <<"m", "e", "t", "e", "r", "s">>
w_metres == <<"m", "e", "t", "r", "e", "s">>
w_m == <<"m">>
w_group == <<"g", "r", "o", "u", "p">>
w_sleep == <<"s", "l", "e", "e", "p">>

(***************************************************************************)
(* PvLexer.lexer_patterns: the ordered pattern table                        *)
(***************************************************************************)
\* [\s]+
re_whitespace == Plus(Ch(Space))

\* -?0[xX][\da-fA-F]+
re_hex == Cat(<<Opt(Ch({"-"})), Ch({"0"}), Ch({"x", "X"}), Plus(Ch(HexDigit))>>)

\* [-+]?(\d+([.]\d*)?|[.,]\d+)([eE][-+]?\d+)?
re_number ==
    Cat(<<Opt(Ch({"-", "+"})),
          Alt(<<Cat(<<Plus(Ch(Digit)), Opt(Cat(<<Ch({"."}), Star(Ch(Digit))>>))>>),
                Cat(<<Ch({".", ","}), Plus(Ch(Digit))>>)>>),
          Opt(Cat(<<Ch({"e", "E"}), Opt(Ch({"-", "+"})), Plus(Ch(Digit))>>))>>)

\* ".+"
re_string == Cat(<<Ch({"\""}), Plus(AnyChar), Ch({"\""})>>)

\* [\w:\(\)\$]+(\.[\w]+)?
re_pvname == Cat(<<Plus(Ch(NameChar)), Opt(Cat(<<Ch({"."}), Plus(Ch(WordChar))>>))>>)

Pattern(re, id) == [re |-> re, id |-> id]

lexer_patterns ==
    << Pattern(re_whitespace, TOKEN_WHITESPACE),
       Pattern(re_hex, TOKEN_INTEGER),
       Pattern(re_number, TOKEN_NUMBER),
       Pattern(re_string, TOKEN_STRING),
       Pattern(Alt(<<Lit(w_string), Lit(w_int), Lit(w_short), Lit(w_float),
                     Lit(w_enum), Lit(w_char), Lit(w_long), Lit(w_double)>>), TOKEN_TYPE),
       Pattern(Alt(<<Lit(w_arcsec), Lit(w_deg)>>), TOKEN_UNIT),
       Pattern(Alt(<<Lit(w_microns), Lit(w_um)>>), TOKEN_UNIT),
       Pattern(Alt(<<Lit(w_millimeters), Lit(w_millimetres), Lit(w_mm)>>), TOKEN_UNIT),
       Pattern(Alt(<<Lit(w_meters), Lit(w_metres), Lit(w_m)>>), TOKEN_UNIT),
       Pattern(Lit(w_group), TOKEN_GROUP),
       Pattern(Lit(w_sleep), TOKEN_SLEEP),
       Pattern(re_pvname, TOKEN_PVNAME),
       Pattern(Lit(<<"#">>), TOKEN_COMMENT),
       Pattern(Lit(<<";">>), TOKEN_SEMICOLON),
       Pattern(Lit(<<"=">>), TOKEN_EQUALS),
       Pattern(Lit(<<",">>), TOKEN_COMMA),
       Pattern(Lit(<<"*">>), TOKEN_TIMES),
       Pattern(Lit(<<"/">>), TOKEN_DIVIDED),
       Pattern(Lit(<<"%">>), TOKEN_PERCENT),
       Pattern(Lit(<<"{">>), TOKEN_LEFT_BRACE),
       Pattern(Lit(<<"}">>), TOKEN_RIGHT_BRACE),
       Pattern(Lit(<<"[">>), TOKEN_LEFT_BRACKET),
       Pattern(Lit(<<"]">>), TOKEN_RIGHT_BRACKET) >>

(***************************************************************************)
(* Python's int() and float() applied to a string                           *)
(***************************************************************************)
\* the strings int() takes: decimal digits with an optional sign
re_int == Cat(<<Opt(Ch({"-", "+"})), Plus(Ch(Digit))>>)

\* the strings float() takes: a decimal literal, the decimal separator a dot
re_float ==
    Cat(<<Opt(Ch({"-", "+"})),
          Alt(<<Cat(<<Plus(Ch(Digit)), Opt(Cat(<<Ch({"."}), Star(Ch(Digit))>>))>>),
                Cat(<<Ch({"."}), Plus(Ch(Digit))>>)>>),
          Opt(Cat(<<Ch({"e", "E"}), Opt(Ch({"-", "+"})), Plus(Ch(Digit))>>))>>)

\* int(text) does not raise ValueError
PyIntOk(text) == FullMatch(re_int, text)

\* float(text) does not raise ValueError
PyFloatOk(text) == FullMatch(re_float, text)

DigitValue(c) ==
    CASE c = "0" -> 0 [] c = "1" -> 1 [] c = "2" -> 2 [] c = "3" -> 3 [] c = "4" -> 4
      [] c = "5" -> 5 [] c = "6" -> 6 [] c = "7" -> 7 [] c = "8" -> 8 [] c = "9" -> 9

RECURSIVE DecimalValue(_, _)
\* the value of the first n characters of digits, read as a decimal number
DecimalValue(digits, n) ==
    IF n = 0 THEN 0 ELSE 10 * DecimalValue(digits, n - 1) + DigitValue(digits[n])

\* int(text), for a text int() takes
PyInt(text) ==
    IF CharAt(text, 1) = "-" THEN 0 - DecimalValue(Tail(text), Len(text) - 1)
    ELSE IF CharAt(text, 1) = "+" THEN DecimalValue(Tail(text), Len(text) - 1)
    ELSE DecimalValue(text, Len(text))

(***************************************************************************)
(* PvToken                                                                  *)
(***************************************************************************)
PvToken(token_id, token_value) == [id |-> token_id, value |-> token_value]

\* PvToken.match
match(token, token_id) == token.id = token_id

\* PvToken.is_in
is_in(token, token_id_list) == \E i \in 1..Len(token_id_list) : token.id = token_id_list[i]

\* "token in [ids]": PvToken defines no __eq__, so a PvToken object never
\* compares equal to an integer and the membership test is always false
TokenInList(token, token_id_list) ==
    \E i \in 1..Len(token_id_list) : FALSE /\ token.id = token_id_list[i]

(***************************************************************************)
(* PvLexer                                                                  *)
(***************************************************************************)
\* the patterns of compiled_patterns that match at pos
Hits(line, pos) ==
    {i \in 1..Len(lexer_patterns) : ReMatch(lexer_patterns[i].re, line, pos) > 0}

\* the loop without its break: the last pattern that matches wins
Lowest_last(hits) == IF hits = {} THEN 0 ELSE CHOOSE i \in hits : \A j \in hits : i >= j

Lowest(hits) == IF hits = {} THEN 0 ELSE CHOOSE i \in hits : \A j \in hits : i <= j

\* the for loop over compiled_patterns: the index of the first pattern
\* that matches at pos, 0 when none does
FirstMatch(line, pos) == Lowest(Hits(line, pos))

\* the token of the match of length len of a pattern with identifier t_id;
\* a TOKEN_NUMBER becomes an integer if int() takes its text, else a float
MatchedToken(t_id, text) ==
    PvToken(IF t_id # TOKEN_NUMBER THEN t_id
            ELSE IF PyIntOk(text) THEN TOKEN_INTEGER ELSE TOKEN_FLOAT, text)

\* the scanner between two passes of the while loop of _get_token_list:
\* line_pos = pos - 1, and stop is set once the loop is left by a break
Scanner(pos, token_list, stop) == [pos |-> pos, token_list |-> token_list, stop |-> stop]

\* one pass of the while loop: pattern i matched at sc.pos (none if i = 0),
\* the match being len characters long
ScanMatch(line, sc, i, len) ==
    IF i = 0
    THEN Scanner(sc.pos, Append(sc.token_list, PvToken(TOKEN_ERROR, <<line[sc.pos]>>)), TRUE)
    ELSE IF lexer_patterns[i].id = TOKEN_COMMENT THEN Scanner(sc.pos, sc.token_list, TRUE)
    ELSE IF lexer_patterns[i].id = TOKEN_WHITESPACE THEN Scanner(sc.pos + len, sc.token_list, FALSE)
    ELSE Scanner(sc.pos + len,
                 Append(sc.token_list,
                        MatchedToken(lexer_patterns[i].id, SubSeq(line, sc.pos, sc.pos + len - 1))),
                 FALSE)

ScanFirst(line, sc, i) ==
    ScanMatch(line, sc, i, IF i = 0 THEN 0 ELSE ReMatch(lexer_patterns[i].re, line, sc.pos))

\* the loop test and one pass
ScanStep(line, sc) ==
    IF sc.stop \/ sc.pos > Len(line) THEN sc
    ELSE ScanFirst(line, sc, FirstMatch(line, sc.pos))

RECURSIVE ScanLine(_, _, _)
RECURSIVE ScanOn(_, _, _)
\* n passes of the while loop of _get_token_list (the loop is left after at
\* most len(line) passes): the first half of the passes, then the others
ScanLine(line, sc, n) ==
    IF n = 0 THEN sc
    ELSE IF n = 1 THEN ScanStep(line, sc)
    ELSE ScanOn(line, ScanLine(line, sc, n \div 2), n - n \div 2)

ScanOn(line, sc, n) == IF sc.stop \/ sc.pos > Len(line) THEN sc ELSE ScanLine(line, sc, n)

\* PvLexer._get_token_list
_get_token_list(line) == ScanLine(line, Scanner(1, <<>>, FALSE), Len(line)).token_list

\* str.strip()
Strip(line) ==
    IF \A j \in 1..Len(line) : line[j] \in Space THEN <<>>
    ELSE SubSeq(line,
                CHOOSE j \in 1..Len(line) : line[j] \notin Space /\ \A k \in 1..(j - 1) : line[k] \in Space,
                CHOOSE j \in 1..Len(line) : line[j] \notin Space /\ \A k \in (j + 1)..Len(line) : line[k] \in Space)

\* what _get_token_list returns for each line of the files of the run (the
\* scanner is a function of the line alone, tabulated when the run begins)
VARIABLE token_lists

\* PvLexer.__init__
PvLexer == [last_line |-> <<>>, line_number |-> 0, token_list |-> <<>>]

RECURSIVE ReadLine(_, _)
RECURSIVE ReadLineStripped(_, _, _)

\* the "while True" loop of next_token: read lines up to the first one that is
\* neither empty nor a comment.  found is false when f_in raises StopIteration.
ReadLine(f_in, line_number) ==
    IF f_in = <<>> THEN [found |-> FALSE, line |-> <<>>, f_in |-> f_in, line_number |-> line_number]
    ELSE ReadLineStripped(f_in, line_number, Strip(Head(f_in)))

ReadLineStripped(f_in, line_number, line) ==
    IF CharAt(line, 1) # "#" /\ Len(line) > 0
    THEN [found |-> TRUE, line |-> line, f_in |-> Tail(f_in), line_number |-> line_number + 1]
    ELSE ReadLine(Tail(f_in), line_number + 1)

\* next_token when the buffer is empty; r is what the reading loop found
FillAndPop(lex, r, tokens) ==
    [lex |-> [last_line |-> IF r.found THEN r.line ELSE lex.last_line,
              line_number |-> r.line_number,
              token_list |-> Tail(tokens)],
     f_in |-> r.f_in,
     token |-> Head(tokens)]

\* next_token answering the end of the stream with the ERROR token
Tokenized_error(lex, r) ==
    FillAndPop(lex, r, IF r.found THEN token_lists[r.line] ELSE <<PvToken(TOKEN_ERROR, <<>>)>>)

Tokenized(lex, r) ==
    FillAndPop(lex, r, IF r.found THEN token_lists[r.line] ELSE <<PvToken(TOKEN_EOF, <<>>)>>)

\* PvLexer.next_token(f_in): the lexer after the call, the file after the
\* call, and the token returned
next_token(lex, f_in) ==
    IF Len(lex.token_list) = 0
    THEN Tokenized(lex, ReadLine(f_in, lex.line_number))
    ELSE [lex |-> [lex EXCEPT !.token_list = Tail(lex.token_list)],
          f_in |-> f_in,
          token |-> Head(lex.token_list)]

\* PvLexer.get_last_line
get_last_line(lex) == <<lex.line_number, lex.last_line>>

\* PvLexer.flush
flush(lex) == [lex EXCEPT !.token_list = <<>>]

(***************************************************************************)
(* PvParser.  A parser state s holds the fields of the PvParser object      *)
(* (token, single_*, f_in, file_name, lex), what has been printed (out),    *)
(* the exception being raised (exc, with its message) and the value         *)
(* returned by the method that ran last (ret: "True", "False" or "None";    *)
(* <<>> or <<n>> for pv_single_index_or_count).  hist is a history record   *)
(* that observes the run and is never read by the parser.                   *)
(*                                                                          *)
(* f_in is the list of lines the open file has not handed out yet; <<>>     *)
(* also stands for None (no method reads f_in while it is None).            *)
(***************************************************************************)
w_none == <<"n", "o", "n", "e">>

Raised(s) == s.exc # "none"

Truthy(s) == s.ret = "True"

Return(s, value) == [s EXCEPT !.ret = value]

\* the text of a diagnostic, as pv_error and pv_warning format it
Message(kind, token_value, s, text) ==
    [kind |-> kind, at |-> token_value, file |-> s.file_name,
     line |-> get_last_line(s.lex)[1], text |-> text, src |-> get_last_line(s.lex)[2]]

\* the number of tokens consumed so far: those drawn from the lexer, less
\* the one waiting in the lookahead cell
Consumed(s) == Len(s.hist.drawn) - (IF match(s.token, TOKEN_NONE) THEN 0 ELSE 1)

RECURSIVE LexLines(_)
RECURSIVE LexRead(_)
\* the tokens the lexer will make of the lines f_in
LexLines(f_in) == LexRead(ReadLine(f_in, 0))

LexRead(r) ==
    IF r.found THEN token_lists[r.line] \o LexLines(r.f_in)
    ELSE <<PvToken(TOKEN_EOF, <<>>)>>

\* the tokens ahead of the parser: the cell, the lexer's buffer, the file
Upcoming(s) ==
    (IF match(s.token, TOKEN_NONE) THEN <<>> ELSE <<s.token>>)
        \o s.lex.token_list \o LexLines(s.f_in)

Ids(tokens) == [i \in 1..Len(tokens) |-> tokens[i].id]

\* clear_single without the reset of the two lists
clear_single_lists_kept(s) ==
    [s EXCEPT !.single_data_type = TYPE_NONE,
              !.single_name = <<>>,
              !.single_count = 1]

\* PvParser.clear_single
clear_single(s) ==
    [s EXCEPT !.single_data_type = TYPE_NONE,
              !.single_name = <<>>,
              !.single_count = 1,
              !.single_value_list = <<>>,
              !.single_index_list = <<>>]

\* PvParser.pv_error: raises PvSyntaxError
pv_error(s, text) ==
    [s EXCEPT !.exc = "PvSyntaxError",
              !.message = Message("Error", s.token.value, s, text)]

\* PvParser.pv_warning: prints
pv_warning(s, text) ==
    [s EXCEPT !.out = Append(@, Message("Warning", <<>>, s, text))]

\* get_token without its trap of the lexer's errors
TrapError_untrapped(s) == s

\* PvParser.get_token
TrapError(s) == IF match(s.token, TOKEN_ERROR) THEN pv_error(s, "") ELSE s

\* self.token = self.lex.next_token(self.f_in); the history notes the token
Fetched(s, r) ==
    [s EXCEPT !.token = r.token, !.lex = r.lex, !.f_in = r.f_in,
              !.hist.drawn = Append(@, r.token)]

get_token(s) ==
    IF match(s.token, TOKEN_NONE)
    THEN TrapError(Fetched(s, next_token(s.lex, s.f_in)))
    ELSE s

\* PvParser.flush_token
flush_token(s) == [s EXCEPT !.token = PvToken(TOKEN_NONE, w_none)]

\* PvParser.flush_and_get_token
flush_and_get_token(s) == get_token(flush_token(s))

\* PvParser.map_type
map_type(token) ==
    IF token.value \in {w_string, w_char, w_enum} THEN TYPE_STRING
    ELSE IF token.value \in {w_short, w_int, w_long} THEN TYPE_INTEGER
    ELSE IF token.value \in {w_float, w_double} THEN TYPE_FLOAT
    ELSE TYPE_NONE

RECURSIVE CheckIntegerValues_on(_, _)
\* the loop over the values without its break
CheckIntegerValues_on(s, values) ==
    IF values = <<>> THEN s
    ELSE IF PyIntOk(Head(values)) THEN CheckIntegerValues_on(s, Tail(values))
    ELSE CheckIntegerValues_on(pv_warning(s, "type mismatch"), Tail(values))

RECURSIVE CheckIntegerValues(_, _)
\* check_single, TYPE_INTEGER: for value in single_value_list, with its break
CheckIntegerValues(s, values) ==
    IF values = <<>> THEN s
    ELSE IF PyIntOk(Head(values)) THEN CheckIntegerValues(s, Tail(values))
    ELSE pv_warning(s, "type mismatch")

RECURSIVE CheckFloatValues(_, _)
\* check_single, TYPE_FLOAT: for value in single_value_list, with its break
CheckFloatValues(s, values) ==
    IF values = <<>> THEN s
    ELSE IF PyFloatOk(Head(values)) THEN CheckFloatValues(s, Tail(values))
    ELSE pv_warning(s, "type mismatch")

\* try: int(value); self.pv_warning('type mismatch')  except ValueError: pass
WarnIfInt(s, value) == IF PyIntOk(value) THEN pv_warning(s, "type mismatch") ELSE s

\* try: float(value); self.pv_warning('type mismatch')  except ValueError: pass
WarnIfFloat(s, value) == IF PyFloatOk(value) THEN pv_warning(s, "type mismatch") ELSE s

RECURSIVE CheckStringValues(_, _)
\* check_single, TYPE_STRING: for value in single_value_list; two try blocks
\* a value, and no break
CheckStringValues(s, values) ==
    IF values = <<>> THEN s
    ELSE CheckStringValues(WarnIfFloat(WarnIfInt(s, Head(values)), Head(values)), Tail(values))

\* check_single: the array consistency checks, one if statement each
CheckCount(s) ==
    IF s.single_count # Len(s.single_value_list)
    THEN pv_warning(s, "list of values does not match array size") ELSE s

RECURSIVE WarnRepeated(_, _)
WarnRepeated(s, n) ==
    IF n = 0 THEN s ELSE WarnRepeated(pv_warning(s, "repeated indices"), n - 1)

\* check_single warning once for every index beyond the distinct ones
CheckRepeated_each(s) ==
    WarnRepeated(s, Len(s.single_index_list)
          - Cardinality({s.single_index_list[i] : i \in 1..Len(s.single_index_list)}))

CheckRepeated(s) ==
    IF Len(s.single_index_list)
          # Cardinality({s.single_index_list[i] : i \in 1..Len(s.single_index_list)})
    THEN pv_warning(s, "repeated indices") ELSE s

CheckMissing(s) ==
    IF Len(s.single_index_list) # 0 /\ Len(s.single_value_list) # Len(s.single_index_list)
    THEN pv_warning(s, "missing indices?") ELSE s

CheckArray(s) == CheckMissing(CheckRepeated(CheckCount(s)))

\* check_single without the branch for TYPE_NONE
CheckType_typed(s) ==
    IF s.single_data_type = TYPE_INTEGER THEN CheckIntegerValues(s, s.single_value_list)
    ELSE IF s.single_data_type = TYPE_FLOAT THEN CheckFloatValues(s, s.single_value_list)
    ELSE IF s.single_data_type = TYPE_STRING THEN CheckStringValues(s, s.single_value_list)
    ELSE s

\* check_single: the type consistency checks
CheckType(s) ==
    IF s.single_data_type = TYPE_NONE THEN pv_warning(s, "type not defined")
    ELSE IF s.single_data_type = TYPE_INTEGER THEN CheckIntegerValues(s, s.single_value_list)
    ELSE IF s.single_data_type = TYPE_FLOAT THEN CheckFloatValues(s, s.single_value_list)
    ELSE IF s.single_data_type = TYPE_STRING THEN CheckStringValues(s, s.single_value_list)
    ELSE s

\* the warnings printed between the states s0 and s
WarningsSince(s0, s) ==
    [i \in 1..(Len(s.out) - Len(s0.out)) |-> s.out[Len(s0.out) + i].text]

\* what the history notes of a check_single that began in s and ended in r
NoteCheck(s, r) ==
    [r EXCEPT !.hist.check = Append(@,
        [file |-> s.file_name,
         first |-> s.hist.single_start + 1,
         last |-> Len(s.hist.drawn),
         cell |-> s.token.id,
         single_data_type |-> s.single_data_type,
         single_name |-> s.single_name,
         single_count |-> s.single_count,
         single_value_list |-> s.single_value_list,
         single_index_list |-> s.single_index_list,
         warnings |-> WarningsSince(s, r)])]

check_single(s) == NoteCheck(s, CheckType(CheckArray(s)))

\* "r = call; if it raised, the exception propagates; else do(r)"
Then(r, do(_)) == IF Raised(r) THEN r ELSE do(r)

\* "call and ...": the chain ends with the first call that raises or
\* returns a false value
AndThen(r, do(_)) == IF Raised(r) \/ ~Truthy(r) THEN r ELSE do(r)

\* PvParser.pv_single_index_or_count; ret is <<>> for None, <<value>> else.
\* int() raises ValueError on a hexadecimal INTEGER token.
pv_single_index_or_count(s) ==
    Then(get_token(s), LAMBDA t0 :
        IF match(t0.token, TOKEN_LEFT_BRACKET)
        THEN Then(flush_and_get_token(t0), LAMBDA t1 :
                IF match(t1.token, TOKEN_INTEGER)
                THEN IF ~PyIntOk(t1.token.value) THEN [t1 EXCEPT !.exc = "ValueError"]
                     ELSE Then(flush_and_get_token(t1), LAMBDA t2 :
                            IF match(t2.token, TOKEN_RIGHT_BRACKET)
                            THEN Return(flush_token(t2), <<PyInt(t1.token.value)>>)
                            ELSE pv_error(t2, "expected ']'"))
                ELSE pv_error(t1, "integer value expected"))
        ELSE Return(t0, <<>>))

\* PvParser.pv_single_scale, the method's code
ScaleBody(s) ==
    Then(get_token(s), LAMBDA t0 :
        IF match(t0.token, TOKEN_TIMES)
        THEN Then(flush_and_get_token(t0), LAMBDA t1 :
                IF TokenInList(t1.token, <<TOKEN_INTEGER, TOKEN_FLOAT>>)
                THEN Return(flush_token(t1), "True")
                ELSE pv_error(t1, "expected integer or float value"))
        ELSE IF match(t0.token, TOKEN_DIVIDED)
        THEN Then(flush_and_get_token(t0), LAMBDA t1 :
                IF TokenInList(t1.token, <<TOKEN_INTEGER, TOKEN_FLOAT, TOKEN_UNIT>>)
                THEN Return(flush_token(t1), "True")
                ELSE pv_error(t1, "expected integer/float value or unit qualifier"))
        ELSE IF TokenInList(t0.token, <<TOKEN_INTEGER, TOKEN_FLOAT, TOKEN_UNIT>>)
             THEN Return(flush_token(t0), "True")
             ELSE Return(t0, "True"))

\* what the history notes of a call that began in s and ended in r
Observed(s, r) ==
    [start |-> Consumed(s),
     ahead |-> Ids(Upcoming(s)),
     outcome |-> IF Raised(r) THEN r.exc ELSE r.ret,
     consumed |-> Consumed(r) - Consumed(s),
     cell |-> r.token.id]

NoteScale(s, r) == [r EXCEPT !.hist.scale = Append(@, Observed(s, r))]

\* PvParser.pv_single_scale.  The history notes the tokens ahead at entry
\* and how the method left.
pv_single_scale(s) == NoteScale(s, ScaleBody(s))

\* PvParser.pv_single_value
pv_single_value(s) ==
    Then(get_token(s), LAMBDA t0 :
        IF is_in(t0.token, <<TOKEN_INTEGER, TOKEN_FLOAT, TOKEN_STRING>>)
        THEN Return(flush_token([t0 EXCEPT !.single_value_list = Append(@, t0.token.value)]), "True")
        ELSE pv_error(t0, "expected string, float or integer value"))

\* PvParser.pv_single_index
pv_single_index(s) ==
    Then(pv_single_index_or_count(s), LAMBDA r :
        IF r.ret # <<>>
        THEN Return([r EXCEPT !.single_index_list = Append(@, r.ret[1])], "True")
        ELSE Return(r, "True"))

\* PvParser.pv_single_individual_value
pv_single_individual_value(s) ==
    AndThen(pv_single_index(s), LAMBDA i :
        AndThen(pv_single_value(i), LAMBDA v : pv_single_scale(v)))

RECURSIVE pv_single_value_list(_)
\* PvParser.pv_single_value_list
pv_single_value_list(s) ==
    Then(pv_single_individual_value(s), LAMBDA v :
        IF Truthy(v)
        THEN Then(get_token(v), LAMBDA t :
                IF match(t.token, TOKEN_COMMA) THEN pv_single_value_list(flush_token(t))
                ELSE Return(t, "True"))
        ELSE Return(v, "True"))

\* pv_single_body taking a list of values without braces too
pv_single_body_bare_list(s) ==
    Then(get_token(s), LAMBDA t0 :
        IF match(t0.token, TOKEN_LEFT_BRACE)
        THEN Then(pv_single_value_list(flush_token(t0)), LAMBDA l :
                Then(get_token(l), LAMBDA t1 :
                    IF match(t1.token, TOKEN_RIGHT_BRACE) THEN Return(flush_token(t1), "True")
                    ELSE pv_error(t1, "expected '}'")))
        ELSE pv_single_value_list(t0))

\* PvParser.pv_single_body
pv_single_body(s) ==
    Then(get_token(s), LAMBDA t0 :
        IF match(t0.token, TOKEN_LEFT_BRACE)
        THEN Then(pv_single_value_list(flush_token(t0)), LAMBDA l :
                Then(get_token(l), LAMBDA t1 :
                    IF match(t1.token, TOKEN_RIGHT_BRACE) THEN Return(flush_token(t1), "True")
                    ELSE pv_error(t1, "expected '}'")))
        ELSE pv_single_individual_value(t0))

\* PvParser.pv_single_equals
pv_single_equals(s) ==
    Then(get_token(s), LAMBDA t0 :
        IF match(t0.token, TOKEN_EQUALS) THEN Return(flush_token(t0), "True")
        ELSE pv_error(t0, "'=' expected"))

\* PvParser.pv_single_count
pv_single_count(s) ==
    Then(pv_single_index_or_count(s), LAMBDA r :
        Return([r EXCEPT !.single_count = IF r.ret # <<>> THEN r.ret[1] ELSE 1], "True"))

\* PvParser.pv_single_name
pv_single_name(s) ==
    Then(get_token(s), LAMBDA t0 :
        IF match(t0.token, TOKEN_PVNAME)
        THEN Return(flush_token([t0 EXCEPT !.single_name = t0.token.value]), "True")
        ELSE Return(t0, "False"))

\* PvParser.pv_single_type
pv_single_type(s) ==
    Then(get_token(s), LAMBDA t0 :
        IF match(t0.token, TOKEN_TYPE)
        THEN Return(flush_token([t0 EXCEPT !.single_data_type = map_type(t0.token)]), "True")
        ELSE Return(t0, "True"))

\* PvParser.pv_single_start
pv_single_start(s) ==
    Then(get_token(s), LAMBDA t0 :
        IF match(t0.token, TOKEN_PERCENT) THEN Return(flush_token(t0), "True")
        ELSE Return(t0, "True"))

\* PvParser.pv_single_head
pv_single_head(s) ==
    AndThen(pv_single_start(s), LAMBDA a :
        AndThen(pv_single_type(a), LAMBDA b :
            AndThen(pv_single_name(b), LAMBDA c : pv_single_count(c))))

\* pv_single with check_single called before the test for the ';'
SingleBody_check_first(s) ==
    Then(pv_single_head(s), LAMBDA h :
        IF ~Truthy(h) THEN Return(h, "False")
        ELSE Then(pv_single_equals(h), LAMBDA e :
                IF ~Truthy(e) THEN Return(e, "False")
                ELSE Then(pv_single_body(e), LAMBDA b :
                        IF ~Truthy(b) THEN Return(b, "False")
                        ELSE Then(get_token(b), LAMBDA t :
                                IF match(t.token, TOKEN_SEMICOLON)
                                THEN Return(flush_token(check_single(t)), "True")
                                ELSE pv_error(check_single(t), "expected ';'")))))

\* PvParser.pv_single, after its clear_single()
SingleBody(s) ==
    Then(pv_single_head(s), LAMBDA h :
        IF ~Truthy(h) THEN Return(h, "False")
        ELSE Then(pv_single_equals(h), LAMBDA e :
                IF ~Truthy(e) THEN Return(e, "False")
                ELSE Then(pv_single_body(e), LAMBDA b :
                        IF ~Truthy(b) THEN Return(b, "False")
                        ELSE Then(get_token(b), LAMBDA t :
                                IF match(t.token, TOKEN_SEMICOLON)
                                THEN Return(flush_token(check_single(t)), "True")
                                ELSE pv_error(t, "expected ';'")))))

NoteSingle(s, r) == [r EXCEPT !.hist.single = Append(@, Observed(s, r))]

\* PvParser.pv_single.  The history notes the tokens ahead at entry and how
\* the method left.
pv_single(s) ==
    NoteSingle(s, SingleBody(clear_single([s EXCEPT !.hist.single_start = Consumed(s)])))

\* pv_sleep leaving the ';' of 'sleep;' in the cell
SleepBody_unflushed(s) ==
    Then(get_token(s), LAMBDA t0 :
        IF match(t0.token, TOKEN_SLEEP)
        THEN Then(flush_and_get_token(t0), LAMBDA t1 :
                IF match(t1.token, TOKEN_INTEGER) \/ match(t1.token, TOKEN_FLOAT)
                THEN Then(flush_and_get_token(t1), LAMBDA t2 :
                        IF match(t2.token, TOKEN_SEMICOLON) THEN Return(flush_token(t2), "True")
                        ELSE pv_error(t2, "expected ';'"))
                ELSE IF match(t1.token, TOKEN_SEMICOLON)
                THEN Return(pv_warning(t1, "no time specified in sleep"), "True")
                ELSE pv_error(t1, "expected integer or float value"))
        ELSE Return(t0, "False"))

\* PvParser.pv_sleep, the method's code
SleepBody(s) ==
    Then(get_token(s), LAMBDA t0 :
        IF match(t0.token, TOKEN_SLEEP)
        THEN Then(flush_and_get_token(t0), LAMBDA t1 :
                IF match(t1.token, TOKEN_INTEGER) \/ match(t1.token, TOKEN_FLOAT)
                THEN Then(flush_and_get_token(t1), LAMBDA t2 :
                        IF match(t2.token, TOKEN_SEMICOLON) THEN Return(flush_token(t2), "True")
                        ELSE pv_error(t2, "expected ';'"))
                ELSE IF match(t1.token, TOKEN_SEMICOLON)
                THEN Return(flush_token(pv_warning(t1, "no time specified in sleep")), "True")
                ELSE pv_error(t1, "expected integer or float value"))
        ELSE Return(t0, "False"))

\* what the history notes of a pv_sleep that began in s and ended in r
NoteSleep(s, r) ==
    [r EXCEPT !.hist.sleep = Append(@,
        [ahead |-> Ids(Upcoming(s)),
         outcome |-> IF Raised(r) THEN r.exc ELSE r.ret,
         consumed |-> Consumed(r) - Consumed(s),
         cell |-> r.token.id,
         warnings |-> WarningsSince(s, r)])]

\* PvParser.pv_sleep.  The history notes the tokens ahead at entry and how
\* the method left.
pv_sleep(s) == NoteSleep(s, SleepBody(s))

\* PvParser.pv_group_tail
pv_group_tail(s) ==
    Then(get_token(s), LAMBDA t0 :
        IF match(t0.token, TOKEN_SEMICOLON) THEN Return(flush_token(t0), "None")
        ELSE Return(t0, "None"))

RECURSIVE pv_group_body(_)
\* PvParser.pv_group_body
pv_group_body(s) ==
    Then(pv_single(s), LAMBDA r :
        IF Truthy(r) THEN pv_group_body(r) ELSE Return(r, "True"))

\* PvParser.pv_group_head
pv_group_head(s) ==
    Then(get_token(s), LAMBDA t0 :
        IF match(t0.token, TOKEN_GROUP) THEN Return(flush_token(t0), "True")
        ELSE Return(t0, "False"))

\* PvParser.pv_group, the method's code: it returns None when 'group' is
\* not followed by '{'
GroupBody(s) ==
    Then(pv_group_head(s), LAMBDA h :
        IF Truthy(h)
        THEN Then(get_token(h), LAMBDA t0 :
                IF match(t0.token, TOKEN_LEFT_BRACE)
                THEN Then(pv_group_body(flush_token(t0)), LAMBDA b :
                        Then(pv_group_tail(b), LAMBDA e :
                            Then(get_token(e), LAMBDA t1 :
                                IF match(t1.token, TOKEN_RIGHT_BRACE)
                                THEN Return(flush_token(t1), "True")
                                ELSE pv_error(t1, ""))))
                ELSE Return(t0, "None"))
        ELSE Return(h, "False"))

\* what the history notes of a pv_group that began in s and ended in r
NoteGroup(s, r) == [r EXCEPT !.hist.group = Append(@, Observed(s, r))]

\* PvParser.pv_group.  The history notes the tokens ahead at entry and how
\* the method left.
pv_group(s) == NoteGroup(s, GroupBody(s))

\* PvParser.pv_item
pv_item(s) ==
    Then(pv_group(s), LAMBDA g :
        IF Truthy(g) THEN Return(g, "True")
        ELSE Then(pv_sleep(g), LAMBDA p :
                IF Truthy(p) THEN Return(p, "True")
                ELSE Then(pv_single(p), LAMBDA i :
                        IF Truthy(i) THEN Return(i, "True")
                        ELSE Then(get_token(i), LAMBDA t :
                                IF match(t.token, TOKEN_EOF) THEN Return(t, "False")
                                ELSE pv_error(t, "")))))

(***************************************************************************)
(* PvParser.pv_file, in three parts: up to the while loop, one pass of the  *)
(* loop, and what follows the loop.                                         *)
(***************************************************************************)
\* PvParser.__init__ (the object's fields)
PvParser ==
    [f_in |-> <<>>, file_name |-> 0, lex |-> PvLexer,
     token |-> PvToken(TOKEN_NONE, w_none),
     single_data_type |-> TYPE_NONE, single_name |-> <<>>, single_count |-> 1,
     single_value_list |-> <<>>, single_index_list |-> <<>>]

NoMessage == [kind |-> "", at |-> <<>>, file |-> 0, line |-> 0, text |-> "", src |-> <<>>]

NoHistory ==
    [drawn |-> <<>>, single_start |-> 0, single |-> <<>>, check |-> <<>>, scale |-> <<>>,
     sleep |-> <<>>, spent |-> FALSE, group |-> <<>>,
     iter |-> [file |-> 0, clean |-> TRUE, first_line |-> 0, first |-> TOKEN_NONE,
               outcome |-> "", lines_after_first |-> 0, lines_left |-> 0, out_before |-> 0,
               drawn_before |-> 0]]

\* the parser state of a method call on the object pv
Enter(pv, out, hist) ==
    [f_in |-> pv.f_in, file_name |-> pv.file_name, lex |-> pv.lex, token |-> pv.token,
     single_data_type |-> pv.single_data_type, single_name |-> pv.single_name,
     single_count |-> pv.single_count, single_value_list |-> pv.single_value_list,
     single_index_list |-> pv.single_index_list,
     out |-> out, hist |-> hist, exc |-> "none", message |-> NoMessage, ret |-> "None"]

\* the object in the parser state s
Object(s) ==
    [f_in |-> s.f_in, file_name |-> s.file_name, lex |-> s.lex, token |-> s.token,
     single_data_type |-> s.single_data_type, single_name |-> s.single_name,
     single_count |-> s.single_count, single_value_list |-> s.single_value_list,
     single_index_list |-> s.single_index_list]

\* pv_file up to the loop: open(input_file_name) succeeded.  A file name is
\* the position of the path on the command line, its content the file's lines.
pv_file_open(s, input_file_name, lines) ==
    [s EXCEPT !.f_in = lines, !.file_name = input_file_name]

\* the except clause of the loop: print(e), flush_token(), clear_single(), lex.flush()
Recover(s) ==
    [clear_single(flush_token(s)) EXCEPT !.out = Append(@, s.message), !.exc = "none",
                                         !.message = NoMessage, !.lex = flush(s.lex)]

\* one pass of the while loop of pv_file.  ret "False" stands for the break;
\* a ValueError is not caught.  The history notes where the pass began and
\* how it ended.
PassBody(i) == IF i.exc = "PvSyntaxError" THEN Return(Recover(i), "True") ELSE i

NotePass(s, first, i, r) ==
    [r EXCEPT !.hist.iter =
        [file |-> s.file_name,
         clean |-> match(s.token, TOKEN_NONE) /\ s.lex.token_list = <<>>,
         first_line |-> first.lex.line_number,
         first |-> first.token.id,
         outcome |-> IF i.exc # "none" THEN i.exc
                     ELSE IF Truthy(i) THEN "item" ELSE "break",
         lines_after_first |-> Len(first.f_in),
         lines_left |-> Len(r.f_in),
         out_before |-> Len(s.out),
         drawn_before |-> Len(s.hist.drawn)]]

ObservedPass(s, i) == NotePass(s, get_token(s), i, PassBody(i))

pv_file_pass(s) == ObservedPass(s, pv_item(s))

\* pv_file after the loop
pv_file_close(s) ==
    Return([s EXCEPT !.f_in = <<>>, !.file_name = 0], "True")

RECURSIVE pv_file_loop(_)
\* the whole while loop of pv_file
pv_file_loop(s) == AndThen(pv_file_pass(s), LAMBDA r : pv_file_loop(r))

\* PvParser.pv_file on a file that can be opened
pv_file(s, input_file_name, lines) ==
    Then(pv_file_loop(pv_file_open(s, input_file_name, lines)), LAMBDA r : pv_file_close(r))

(***************************************************************************)
(* Input.  A file is missing or holds lines.  CoreLines are the lines that   *)
(* show how statements, lines and files follow one another; GivenLines and   *)
(* MadeLines are single statements, each tried as a file of one line.        *)
(***************************************************************************)
\* int pv:name = 5;
L_int_ok == <<"i", "n", "t", " ", "p", "v", ":", "n", "a", "m", "e", " ", "=", " ", "5", ";">>

\* string pv:name = 5;
L_string_5 == <<"s", "t", "r", "i", "n", "g", " ", "p", "v", ":", "n", "a", "m", "e", " ", "=", " ", "5", ";">>

\* int pv:name 5;
L_no_equals == <<"i", "n", "t", " ", "p", "v", ":", "n", "a", "m", "e", " ", "5", ";">>

\* float a:b = 2.5
L_no_semicolon == <<"f", "l", "o", "a", "t", " ", "a", ":", "b", " ", "=", " ", "2", ".", "5">>

\* group { e:f = 7;
L_group_open == <<"g", "r", "o", "u", "p", " ", "{", " ", "e", ":", "f", " ", "=", " ", "7", ";">>

\* }
L_group_close == <<"}">>

\* # saved values
L_comment == <<"#", " ", "s", "a", "v", "e", "d", " ", "v", "a", "l", "u", "e", "s">>

CoreLines ==
    {L_int_ok,
     L_string_5,
     L_no_equals,
     L_no_semicolon,
     L_group_open,
     L_group_close,
     L_comment}

\* group { int a:b = 1; string c:d[2] = {[0]"x", [1]"y"}; }
L_group == <<"g", "r", "o", "u", "p", " ", "{", " ", "i", "n", "t", " ", "a", ":", "b", " ", "=", " ", "1", ";", " ", "s", "t", "r", "i", "n", "g", " ", "c", ":", "d", "[", "2", "]", " ", "=", " ", "{", "[", "0", "]", "\"", "x", "\"", ",", " ", "[", "1", "]", "\"", "y", "\"", "}", ";", " ", "}">>

\* group { int a:b = 1; int c:d = 2; }
L_group_two == <<"g", "r", "o", "u", "p", " ", "{", " ", "i", "n", "t", " ", "a", ":", "b", " ", "=", " ", "1", ";", " ", "i", "n", "t", " ", "c", ":", "d", " ", "=", " ", "2", ";", " ", "}">>

\* sleep;
L_sleep == <<"s", "l", "e", "e", "p", ";">>

\* int a:b[0x2] = 1;
L_hex_count == <<"i", "n", "t", " ", "a", ":", "b", "[", "0", "x", "2", "]", " ", "=", " ", "1", ";">>

\* pv:name[3] = {[0]1,[1]2,[2]3};
L_untyped == <<"p", "v", ":", "n", "a", "m", "e", "[", "3", "]", " ", "=", " ", "{", "[", "0", "]", "1", ",", "[", "1", "]", "2", ",", "[", "2", "]", "3", "}", ";">>

\* int a:b[3] = {1,2};
L_short_list == <<"i", "n", "t", " ", "a", ":", "b", "[", "3", "]", " ", "=", " ", "{", "1", ",", "2", "}", ";">>

\* int a:b[2] = {[0]1,[0]2};
L_repeated == <<"i", "n", "t", " ", "a", ":", "b", "[", "2", "]", " ", "=", " ", "{", "[", "0", "]", "1", ",", "[", "0", "]", "2", "}", ";">>

\* int a:b[3] = {[0]1,[0]2,[0]3};
L_repeated_thrice == <<"i", "n", "t", " ", "a", ":", "b", "[", "3", "]", " ", "=", " ", "{", "[", "0", "]", "1", ",", "[", "0", "]", "2", ",", "[", "0", "]", "3", "}", ";">>

\* int a:b[2] = {2.5, "s"};
L_two_misfits == <<"i", "n", "t", " ", "a", ":", "b", "[", "2", "]", " ", "=", " ", "{", "2", ".", "5", ",", " ", "\"", "s", "\"", "}", ";">>

\* sleep 5;
L_sleep_int == <<"s", "l", "e", "e", "p", " ", "5", ";">>

\* sleep 2.5;
L_sleep_float == <<"s", "l", "e", "e", "p", " ", "2", ".", "5", ";">>

\* group int a:b = 1;
L_group_no_brace == <<"g", "r", "o", "u", "p", " ", "i", "n", "t", " ", "a", ":", "b", " ", "=", " ", "1", ";">>

\* group { int a:b = 1; sleep;
L_group_unclosed == <<"g", "r", "o", "u", "p", " ", "{", " ", "i", "n", "t", " ", "a", ":", "b", " ", "=", " ", "1", ";", " ", "s", "l", "e", "e", "p", ";">>

\* int a:b = 1, 2;
L_bare_list == <<"i", "n", "t", " ", "a", ":", "b", " ", "=", " ", "1", ",", " ", "2", ";">>

\* int a:b = 1 "s";
L_bare_pair == <<"i", "n", "t", " ", "a", ":", "b", " ", "=", " ", "1", " ", "\"", "s", "\"", ";">>

\* int a:b[2] = [0]1, [1]2;
L_bare_indexed == <<"i", "n", "t", " ", "a", ":", "b", "[", "2", "]", " ", "=", " ", "[", "0", "]", "1", ",", " ", "[", "1", "]", "2", ";">>

\* int a:b = [-1]1;
L_negative_index == <<"i", "n", "t", " ", "a", ":", "b", " ", "=", " ", "[", "-", "1", "]", "1", ";">>

\* int a:b[-2] = 1;
L_negative_count == <<"i", "n", "t", " ", "a", ":", "b", "[", "-", "2", "]", " ", "=", " ", "1", ";">>

\* int = 1;
L_type_no_name == <<"i", "n", "t", " ", "=", " ", "1", ";">>

\* % 5;
L_percent_no_name == <<"%", " ", "5", ";">>

\* int a:b = 1; @
L_stray_after == <<"i", "n", "t", " ", "a", ":", "b", " ", "=", " ", "1", ";", " ", "@">>

\* int a:b = ! 1;
L_stray_in == <<"i", "n", "t", " ", "a", ":", "b", " ", "=", " ", "!", " ", "1", ";">>

\* @ int a:b = 1;
L_stray_first == <<"@", " ", "i", "n", "t", " ", "a", ":", "b", " ", "=", " ", "1", ";">>

\* int a:b = 0x1F;
L_hex_value == <<"i", "n", "t", " ", "a", ":", "b", " ", "=", " ", "0", "x", "1", "F", ";">>

\* string c:d[2] = {"x", "y"};
L_two_strings == <<"s", "t", "r", "i", "n", "g", " ", "c", ":", "d", "[", "2", "]", " ", "=", " ", "{", "\"", "x", "\"", ",", " ", "\"", "y", "\"", "}", ";">>

GivenLines ==
    {L_group,
     L_group_two,
     L_sleep,
     L_hex_count,
     L_untyped,
     L_short_list,
     L_repeated,
     L_repeated_thrice,
     L_two_misfits,
     L_sleep_int,
     L_sleep_float,
     L_group_no_brace,
     L_group_unclosed,
     L_bare_list,
     L_bare_pair,
     L_bare_indexed,
     L_negative_index,
     L_negative_count,
     L_type_no_name,
     L_percent_no_name,
     L_stray_after,
     L_stray_in,
     L_stray_first,
     L_hex_value,
     L_two_strings}

\* the number of path arguments, of lines in all the files together, and of
\* values in the list of a made statement
MaxFiles == 2

MaxLines == 2

MaxValues == 2

\* the pieces of the made statements
TypeTexts == {<<>>, w_int \o <<" ">>, w_float \o <<" ">>, w_string \o <<" ">>}

OtherTypeTexts ==
    {w_short \o <<" ">>, w_long \o <<" ">>, w_double \o <<" ">>, w_char \o <<" ">>,
     w_enum \o <<" ">>}

NameText == <<"a", ":", "b">>

CountTexts == {<<>>, <<"[", "2", "]">>}

IndexTexts == {<<>>, <<"[", "0", "]">>, <<"[", "1", "]">>}

ValueTexts == {<<"1">>, <<"2", ".", "5">>, <<"\"", "s", "\"">>}

ScaleTexts ==
    {<<"*", "2">>, <<"*", "2", ".", "5">>, <<"/", "2">>, <<"/", "2", ".", "5">>, <<"/", "m", "m">>,
     <<" ", "2">>, <<" ", "2", ".", "5">>, <<" ", "m", "m">>}

ListValueTexts == {<<"1">>, <<"\"", "s", "\"">>}

\* index? value
Items == {i \o v : i \in IndexTexts, v \in ValueTexts}

ListItems == {i \o v : i \in IndexTexts, v \in ListValueTexts}

RECURSIVE Join(_)
\* the items separated by ", "
Join(items) ==
    IF Len(items) = 1 THEN items[1]
    ELSE items[1] \o <<",", " ">> \o Join(Tail(items))

\* value | { value } | { value, value ... }, no value with a scale
PlainBodies ==
    Items
        \cup {<<"{">> \o i \o <<"}">> : i \in Items}
        \cup {<<"{">> \o Join(l) \o <<"}">> : l \in UNION {[1..n -> ListItems] : n \in 2..MaxValues}}

\* value scale | { value scale }
ScaledBodies ==
    {v \o sc : v \in ValueTexts, sc \in ScaleTexts}
        \cup {<<"{">> \o v \o sc \o <<"}">> : v \in ValueTexts, sc \in ScaleTexts}

Statement(type, count, body) == type \o NameText \o count \o <<" ", "=", " ">> \o body \o <<";">>

MadeLines ==
    {Statement(ty, c, b) : ty \in TypeTexts, c \in CountTexts, b \in PlainBodies}
        \cup {Statement(w_int \o <<" ">>, <<>>, b) : b \in ScaledBodies}
        \cup {Statement(ty, <<>>, v) : ty \in OtherTypeTexts, v \in ValueTexts}

AllLines == CoreLines \cup GivenLines \cup MadeLines

NoFile == [exists |-> FALSE, lines |-> <<>>]

File(lines) == [exists |-> TRUE, lines |-> lines]

SeqsUpTo(S, n) == UNION {[1..k -> S] : k \in 0..n}

\* the lines ls dealt to n files, file i ending at line cuts[i]
Deal(ls, n, cuts) ==
    [i \in 1..n |->
        File(SubSeq(ls, (IF i = 1 THEN 0 ELSE cuts[i - 1]) + 1, IF i = n THEN Len(ls) ELSE cuts[i]))]

\* the files fl, those of missing absent
Without(fl, missing) == [i \in 1..Len(fl) |-> IF i \in missing THEN NoFile ELSE fl[i]]

CoreInputs ==
    UNION { UNION { UNION { { Without(Deal(ls, n, cuts), missing) :
                                missing \in SUBSET {i \in 1..n : Deal(ls, n, cuts)[i].lines = <<>>} } :
                            cuts \in {c \in [1..(n - 1) -> 0..Len(ls)] :
                                        \A i \in 1..(n - 2) : c[i] <= c[i + 1]} } :
                    n \in 1..MaxFiles } :
            ls \in SeqsUpTo(CoreLines, MaxLines) }

Inputs == CoreInputs \cup {<<File(<<l>>)>> : l \in GivenLines \cup MadeLines}

\* PvLexer._get_token_list of every line of the inputs
TokenLists == [line \in {Strip(l) : l \in AllLines} |-> _get_token_list(line)]

\* the lines of the files fl, as next_token strips them
Lines(fl) == UNION {{Strip(fl[i].lines[j]) : j \in 1..Len(fl[i].lines)} : i \in 1..Len(fl)}

(***************************************************************************)
(* db.py: the strings of the database file format                           *)
(***************************************************************************)
\* None, and a value that is not None
None == <<>>

Some(v) == <<v>>

\* the truth value Python gives None ('false'), '' ('false') and other strings
Filled(o) == o # None /\ o[1] # <<>>

w_record == <<"r", "e", "c", "o", "r", "d">>

w_field == <<"f", "i", "e", "l", "d">>

\* ^\s*record.*\(
re_record == Cat(<<Star(Ch(Space)), Lit(w_record), Star(AnyChar), Lit(<<"(">>)>>)

\* \s*record.*?\(
re_record_start == Cat(<<Star(Ch(Space)), Lit(w_record), Lazy(AnyChar), Lit(<<"(">>)>>)

\* \s*field.*\(
re_field == Cat(<<Star(Ch(Space)), Lit(w_field), Star(AnyChar), Lit(<<"(">>)>>)

\* re.search of a pattern that begins with ^
Begins(re, line) == Ends(re, line, 1) # <<>>

RECURSIVE ReSub(_, _, _)
\* re.sub(re, '', text), from pos on (re does not match the empty string)
ReSub(re, text, pos) ==
    IF pos > Len(text) THEN <<>>
    ELSE IF ReMatch(re, text, pos) > 0 THEN ReSub(re, text, pos + ReMatch(re, text, pos))
    ELSE <<text[pos]>> \o ReSub(re, text, pos + 1)

\* re.sub(r'\)$', '', text)
DropParen(text) ==
    IF text # <<>> /\ text[Len(text)] = ")" THEN SubSeq(text, 1, Len(text) - 1) ELSE text

\* str.rstrip()
RStrip(line) ==
    SubSeq(line, 1, CHOOSE n \in 0..Len(line) :
                        /\ \A k \in (n + 1)..Len(line) : line[k] \in Space
                        /\ (n = 0 \/ line[n] \notin Space))

\* the positions of c in text
Places(text, c) == {i \in 1..Len(text) : text[i] = c}

\* the greatest and the least of a set of positions, 0 for none
Last(places) == IF places = {} THEN 0 ELSE CHOOSE i \in places : \A j \in places : j <= i

First(places) == IF places = {} THEN 0 ELSE CHOOSE i \in places : \A j \in places : i <= j

\* format_record_start
format_record_start(record_name, record_type) ==
    <<"r", "e", "c", "o", "r", "d", "(">> \o record_type \o <<",", "\"">> \o record_name \o <<"\"", ")">> \o <<" ", "{">>

\* format_record_end
format_record_end == <<"}">>

\* format_field
format_field(name, value) == <<" ", " ", " ", " ", "f", "i", "e", "l", "d", "(">> \o name \o <<",", "\"">> \o value \o <<"\"", ")">>

(***************************************************************************)
(* db.py: EpicsRecord                                                       *)
(***************************************************************************)
\* d[k] = v of a dictionary
Put(d, k, v) == [x \in (DOMAIN d) \cup {k} |-> IF x = k THEN v ELSE d[x]]

\* EpicsRecord.__init__
EpicsRecord(record_name, record_type) ==
    [name |-> record_name, type |-> record_type, field_names |-> <<>>, field_values |-> <<>>]

\* EpicsRecord.add_field
add_field(record, field_name, field_value) ==
    [record EXCEPT !.field_names = Append(@, field_name),
                   !.field_values = Put(@, field_name, field_value)]

\* EpicsRecord.get_fields
get_fields(record) ==
    [i \in 1..Len(record.field_names) |->
        <<record.field_names[i], record.field_values[record.field_names[i]]>>]

\* EpicsRecord.write_record: the lines written to f_out
write_record(record) ==
    <<format_record_start(record.name, record.type)>>
        \o [i \in 1..Len(record.field_names) |->
                format_field(record.field_names[i], record.field_values[record.field_names[i]])]
        \o <<format_record_end>>

(***************************************************************************)
(* db.py: DatabaseFile (no filter function)                                 *)
(***************************************************************************)
STATE_START == 0

STATE_RECORD == 1

\* DatabaseFile.__init__ and the frame of the generator next_record: the
\* lines not read yet, the locals state and record, whether the generator
\* is suspended at its yield, has returned, or was ended by an exception
DatabaseFile(lines) ==
    [f |-> lines, state |-> STATE_START, record |-> None, yielded |-> FALSE,
     done |-> FALSE, exc |-> ""]

\* DatabaseFile._extract_record_name_and_type, the record name after ','
NameOf(record_name) ==
    IF Last(Places(record_name, ")")) > 1
    THEN Some(Strip(ReSub(Ch({"\""}), SubSeq(record_name, 1, Last(Places(record_name, ")")) - 1), 1)))
    ELSE None

\* DatabaseFile._extract_record_name_and_type: <<record name, record type>>
_extract_record_name_and_type(line) ==
    IF Begins(re_record, line)
    THEN LET rest_of_the_line == ReSub(re_record_start, line, 1)
             commas == Places(rest_of_the_line, ",")
             record_type == Strip(ReSub(Ch({"\""}), SubSeq(rest_of_the_line, 1, First(commas) - 1), 1))
             record_name == NameOf(SubSeq(rest_of_the_line, First(commas) + 1, Len(rest_of_the_line)))
         IN  IF Cardinality(commas) # 1 THEN <<None, None>>
             ELSE IF record_name = None THEN <<None, None>>
             ELSE IF record_type = <<>> THEN <<None, None>>
             ELSE IF record_name[1] = <<>> THEN <<None, None>>
             ELSE <<record_name, Some(record_type)>>
    ELSE <<None, None>>

\* DatabaseFile._extract_field_name_and_value: <<field name, field value>>,
\* or ValueError when the line has no ',' to split at
_extract_field_name_and_value(line) ==
    IF Begins(re_field, line)
    THEN LET comma == First(Places(line, ","))
         IN  IF comma = 0 THEN [exc |-> "ValueError", ret |-> <<None, None>>]
             ELSE [exc |-> "",
                   ret |-> <<Some(Strip(ReSub(re_field, SubSeq(line, 1, comma - 1), 1))),
                             Some(ReSub(Ch({"\""}),
                                        DropParen(SubSeq(line, comma + 1, Len(line))), 1))>>]
    ELSE [exc |-> "", ret |-> <<None, None>>]

\* DatabaseFile._record_end
_record_end(line) == Strip(line) = <<"}">>

RECURSIVE next_record(_)
\* DatabaseFile.next_record: the generator runs from where it is suspended
\* to its next yield, to its return at the end of the file, or to an
\* exception
next_record(df) ==
    IF df.f = <<>> THEN [df EXCEPT !.yielded = FALSE, !.done = TRUE]
    ELSE LET line == RStrip(Head(df.f))
             read == [df EXCEPT !.f = Tail(@), !.yielded = FALSE]
             start == _extract_record_name_and_type(line)
             field == _extract_field_name_and_value(line)
         IN  IF df.state = STATE_START
             THEN IF Filled(start[1]) /\ Filled(start[2])
                  THEN next_record([read EXCEPT !.state = STATE_RECORD,
                                                !.record = Some(EpicsRecord(start[1][1], start[2][1]))])
                  ELSE next_record(read)
             ELSE IF field.exc # ""
                  THEN [read EXCEPT !.exc = field.exc, !.done = TRUE]
             ELSE IF Filled(field.ret[1]) /\ Filled(field.ret[2])
                  THEN next_record([read EXCEPT
                            !.record = Some(add_field(@[1], field.ret[1][1], field.ret[2][1]))])
             ELSE IF _record_end(line)
                  THEN [read EXCEPT !.state = STATE_START, !.yielded = TRUE]
             ELSE next_record(read)

(***************************************************************************)
(* db.py: EpicsDatabase                                                     *)
(***************************************************************************)
\* EpicsDatabase.__init__
EpicsDatabase == [records |-> <<>>, record_names |-> <<>>]

\* EpicsDatabase.add_record
add_record(self, record) ==
    [records |-> Put(self.records, record.name, record),
     record_names |-> Append(self.record_names, record.name)]

\* the elements of a list
Elements(list) == {list[i] : i \in 1..Len(list)}

RECURSIVE MergeNames(_, _, _)
\* the loop of EpicsDatabase.append over db.record_names, from its i-th name
MergeNames(record_names, more, i) ==
    IF i > Len(more) THEN record_names
    ELSE IF more[i] \in Elements(record_names) THEN MergeNames(record_names, more, i + 1)
    ELSE MergeNames(Append(record_names, more[i]), more, i + 1)

\* append adding every name of db, those that self holds too
append_every_name(self, db) ==
    [records |-> [x \in (DOMAIN self.records) \cup (DOMAIN db.records) |->
                     IF x \in DOMAIN db.records THEN db.records[x] ELSE self.records[x]],
     record_names |-> self.record_names \o db.record_names]

\* EpicsDatabase.append
append(self, db) ==
    [records |-> [x \in (DOMAIN self.records) \cup (DOMAIN db.records) |->
                     IF x \in DOMAIN db.records THEN db.records[x] ELSE self.records[x]],
     record_names |-> MergeNames(self.record_names, db.record_names, 1)]

\* EpicsDatabase.get_record_names
get_record_names(self) == self.record_names

\* EpicsDatabase.get_record
get_record(self, record_name) ==
    IF record_name \in DOMAIN self.records THEN Some(self.records[record_name]) ELSE None

\* EpicsDatabase.record_count
record_count(self) == Cardinality(DOMAIN self.records)

(***************************************************************************)
(* pvcheck.py: one PvParser, pv_file on every path in argument order        *)
(***************************************************************************)
VARIABLES
    file_list,   \* args.file_list: the files named on the command line
    file_index,  \* the position of the for loop in file_list
    pc,          \* "main": between files; "loop": in the loop of pv_file;
                 \* "close": after the loop; "traceback": ended by an exception
    pv_parser,   \* the PvParser object
    out,         \* the diagnostics printed so far
    hist         \* history of the run (not program state)

VARIABLES
    database_file,  \* a DatabaseFile with its generator next_record
    database        \* the EpicsDatabase objects a and b

vars == <<file_list, file_index, pc, pv_parser, out, hist, token_lists, database_file, database>>

\* a run that reads no database
NoDatabase ==
    /\ database_file = DatabaseFile(<<>>)
    /\ database = [a |-> EpicsDatabase, b |-> EpicsDatabase]

Init ==
    /\ file_list \in Inputs
    /\ file_index = 1
    /\ pc = "main"
    /\ pv_parser = PvParser
    /\ out = <<>>
    /\ hist = NoHistory
    /\ token_lists = [line \in Lines(file_list) |-> TokenLists[line]]
    /\ NoDatabase

\* pv_file: the file opens
PvFileOpen ==
    /\ pc = "main"
    /\ file_index <= Len(file_list)
    /\ file_list[file_index].exists
    /\ pv_parser' = Object(pv_file_open(Enter(pv_parser, out, hist), file_index,
                                        file_list[file_index].lines))
    /\ pc' = "loop"
    /\ UNCHANGED <<file_list, file_index, out, hist, token_lists, database_file, database>>

\* pv_file: open raises IOError and pv_file returns False
PvFileMissing ==
    /\ pc = "main"
    /\ file_index <= Len(file_list)
    /\ ~file_list[file_index].exists
    /\ file_index' = file_index + 1
    /\ UNCHANGED <<file_list, pc, pv_parser, out, hist, token_lists, database_file, database>>

\* pv_file: one pass of the while loop
PvFilePass ==
    /\ pc = "loop"
    /\ LET r == pv_file_pass(Enter(pv_parser, out, hist)) IN
        /\ pv_parser' = Object(r)
        /\ out' = r.out
        /\ hist' = r.hist
        /\ pc' = IF Raised(r) THEN "traceback" ELSE IF Truthy(r) THEN "loop" ELSE "close"
    /\ UNCHANGED <<file_list, file_index, token_lists, database_file, database>>

\* pv_file: the file is closed and pv_file returns True
PvFileClose ==
    /\ pc = "close"
    /\ pv_parser' = Object(pv_file_close(Enter(pv_parser, out, hist)))
    /\ file_index' = file_index + 1
    /\ pc' = "main"
    /\ UNCHANGED <<file_list, out, hist, token_lists, database_file, database>>

Next == PvFileOpen \/ PvFileMissing \/ PvFilePass \/ PvFileClose

Spec == Init /\ [][Next]_vars

(***************************************************************************)
(* The lexer on its own: a caller that has a PvLexer and an open file calls  *)
(* next_token and flush in any order.  The parser object only holds the      *)
(* lexer and the file here; pc is "lexer" throughout.                        *)
(***************************************************************************)
\* the number of calls of next_token that return EOF
MaxEofCalls == 3

LexInputs == {<<File(ls)>> : ls \in SeqsUpTo(CoreLines, MaxLines)}

\* f_in.next() raises StopIteration before next_token finds a line to scan
Exhausted(lex, f_in) == lex.token_list = <<>> /\ ~ReadLine(f_in, 0).found

\* how often next_token has returned EOF
EofCalls == Cardinality({i \in 1..Len(hist.drawn) : hist.drawn[i].id = TOKEN_EOF})

LexInit ==
    /\ file_list \in LexInputs
    /\ file_index = 1
    /\ pc = "lexer"
    /\ pv_parser = [PvParser EXCEPT !.f_in = file_list[1].lines]
    /\ out = <<>>
    /\ hist = NoHistory
    /\ token_lists = [line \in Lines(file_list) |-> TokenLists[line]]
    /\ NoDatabase

\* token = lex.next_token(f_in); the history notes the token and whether
\* the stream was exhausted when the call began
LexNextToken ==
    /\ pc = "lexer"
    /\ EofCalls < MaxEofCalls
    /\ pv_parser' = [pv_parser EXCEPT !.lex = next_token(pv_parser.lex, pv_parser.f_in).lex,
                                      !.f_in = next_token(pv_parser.lex, pv_parser.f_in).f_in]
    /\ hist' = [hist EXCEPT !.drawn = Append(@, next_token(pv_parser.lex, pv_parser.f_in).token),
                            !.spent = Exhausted(pv_parser.lex, pv_parser.f_in)]
    /\ UNCHANGED <<file_list, file_index, pc, out, token_lists, database_file, database>>

\* lex.flush()
LexFlush ==
    /\ pc = "lexer"
    /\ pv_parser' = [pv_parser EXCEPT !.lex = flush(pv_parser.lex)]
    /\ UNCHANGED <<file_list, file_index, pc, out, hist, token_lists, database_file, database>>

LexNext == LexNextToken \/ LexFlush

LexSpec == LexInit /\ [][LexNext]_vars

(***************************************************************************)
(* The scanner on its own: _get_token_list applied to one line, a reserved   *)
(* word between what may stand before and after it.  pc is "scan" before    *)
(* the call and "scanned" after it, when token_lists holds its result.       *)
(***************************************************************************)
TypeWords == {w_string, w_int, w_short, w_float, w_enum, w_char, w_long, w_double}

UnitWords ==
    {w_arcsec, w_deg, w_microns, w_um, w_millimeters, w_millimetres, w_mm, w_meters, w_metres, w_m}

ReservedWords == TypeWords \cup UnitWords \cup {w_group, w_sleep}

\* what stands before the word, with the number of its tokens
Befores ==
    {[text |-> <<>>, tokens |-> 0],
     [text |-> <<" ">>, tokens |-> 0],
     [text |-> <<"a", ":", "b", " ">>, tokens |-> 1],
     [text |-> <<"1", " ">>, tokens |-> 1],
     [text |-> <<"=">>, tokens |-> 1],
     [text |-> <<"{">>, tokens |-> 1],
     [text |-> <<"5", "/">>, tokens |-> 2]}

\* what stands after the word: nothing, whitespace or a symbol
Afters ==
    {<<>>, <<" ">>, <<" ", "x">>, <<";">>, <<"=">>, <<",">>, <<"*">>, <<"/">>, <<"%">>,
     <<"{">>, <<"}">>, <<"[">>, <<"]">>, <<"#">>}

ScanLines == {b.text \o w \o a : b \in Befores, w \in ReservedWords, a \in Afters}

ScanInit ==
    /\ file_list \in {<<File(<<l>>)>> : l \in ScanLines}
    /\ file_index = 1
    /\ pc = "scan"
    /\ pv_parser = PvParser
    /\ out = <<>>
    /\ hist = NoHistory
    /\ token_lists = <<>>
    /\ NoDatabase

\* token_list = self._get_token_list(line)
Scan ==
    /\ pc = "scan"
    /\ token_lists' = [line \in {file_list[1].lines[1]} |-> _get_token_list(line)]
    /\ pc' = "scanned"
    /\ UNCHANGED <<file_list, file_index, pv_parser, out, hist, database_file, database>>

ScanSpec == ScanInit /\ [][Scan]_vars

(***************************************************************************)
(* Databases: a file of record blocks is read with next_record.  In         *)
(* RecordSpec a record that next_record yields is written with              *)
(* write_record; in DbSpec it is added to the database a or b with          *)
(* add_record, and a database is appended to a database.                    *)
(***************************************************************************)
MaxFields == 2

MaxRecords == 3

RecordNames == {<<"r", "1">>, <<"r", "2">>}

FieldNames == {<<"D", "E", "S", "C">>, <<"V", "A", "L">>}

FieldValues == {<<>>, <<"1">>, <<"a", ",", "b">>, <<"$", "(", "t", ")">>}

\* a field line of a database file
FieldLine(name, value) == <<" ", " ", " ", " ", "f", "i", "e", "l", "d", "(">> \o name \o <<",", "\"">> \o value \o <<"\"", ")">>

\* a record block of a database file: the record start line, one field line
\* for each field, the closing '}'
Block(name, type, fields) ==
    <<<<"r", "e", "c", "o", "r", "d", "(">> \o type \o <<",", "\"">> \o name \o <<"\"", ")", " ", "{">>>>
        \o [i \in 1..Len(fields) |-> FieldLine(fields[i][1], fields[i][2])]
        \o <<<<"}">>>>

\* lists of at most MaxFields fields, no field name twice
FieldLists ==
    {fl \in SeqsUpTo(FieldNames \X FieldValues, MaxFields) :
        \A i, j \in 1..Len(fl) : fl[i][1] = fl[j][1] => i = j}

\* the blocks of one record with every list of fields, and the blocks of
\* records of every name with one field, with a second record of one name
FieldBlocks == {Block(<<"r", "1">>, <<"a", "i">>, fl) : fl \in FieldLists}

NameBlocks ==
    {Block(n, <<"a", "i">>, <<<<<<"V", "A", "L">>, <<"1">>>>>>) : n \in RecordNames} \cup {Block(<<"r", "1">>, <<"b", "o">>, <<<<<<"V", "A", "L">>, <<"2">>>>>>)}

RECURSIVE Flat(_, _)
\* the lines of the first n of the blocks
Flat(blocks, n) == IF n = 0 THEN <<>> ELSE Flat(blocks, n - 1) \o blocks[n]

RecordInputs == {<<File(b)>> : b \in FieldBlocks}

DbInputs == {<<File(Flat(bs, Len(bs)))>> : bs \in SeqsUpTo(NameBlocks, MaxRecords)}

\* the history of a run on a database file: the records yielded, whether
\* the record at hand was written and added, the writes and the last call
NoDbHistory ==
    [yields |-> 0, written |-> FALSE, added |-> FALSE, writes |-> <<>>,
     log |-> <<>>,
     last |-> [op |-> "", self |-> "", db |-> ""]]

RecordInit ==
    /\ file_list \in RecordInputs
    /\ file_index = 1
    /\ pc = "record"
    /\ pv_parser = PvParser
    /\ out = <<>>
    /\ hist = NoDbHistory
    /\ token_lists = <<>>
    /\ database_file = DatabaseFile(file_list[1].lines)
    /\ database = [a |-> EpicsDatabase, b |-> EpicsDatabase]

DbInit ==
    /\ file_list \in DbInputs
    /\ file_index = 1
    /\ pc = "db"
    /\ pv_parser = PvParser
    /\ out = <<>>
    /\ hist = NoDbHistory
    /\ token_lists = <<>>
    /\ database_file = DatabaseFile(file_list[1].lines)
    /\ database = [a |-> EpicsDatabase, b |-> EpicsDatabase]

\* for record in df.next_record(): one pass of the loop begins
DbNextRecord ==
    /\ pc \in {"record", "db", "read"}
    /\ ~database_file.done
    /\ database_file' = next_record(database_file)
    /\ hist' = [hist EXCEPT !.yields = IF database_file'.yielded THEN @ + 1 ELSE @,
                            !.written = FALSE,
                            !.added = FALSE,
                            !.log = IF database_file'.yielded
                                    THEN Append(@, [at |-> Len(file_list[1].lines) - Len(database_file'.f),
                                                    record |-> database_file'.record[1]])
                                    ELSE @,
                            !.last = NoDbHistory.last]
    /\ UNCHANGED <<file_list, file_index, pc, pv_parser, out, token_lists, database>>

\* record.write_record(f_out=f)
DbWriteRecord ==
    /\ pc = "record"
    /\ database_file.yielded
    /\ ~hist.written
    /\ out' = out \o write_record(database_file.record[1])
    /\ hist' = [hist EXCEPT !.written = TRUE,
                            !.writes = Append(@, [block |-> hist.yields,
                                                  first |-> Len(out) + 1,
                                                  last |-> Len(out')]),
                            !.last = NoDbHistory.last]
    /\ UNCHANGED <<file_list, file_index, pc, pv_parser, token_lists, database_file, database>>

\* db.add_record(record)
DbAddRecord ==
    /\ pc = "db"
    /\ database_file.yielded
    /\ ~hist.added
    /\ \E x \in {"a", "b"} :
          database' = [database EXCEPT ![x] = add_record(@, database_file.record[1])]
    /\ hist' = [hist EXCEPT !.added = TRUE, !.last = NoDbHistory.last]
    /\ UNCHANGED <<file_list, file_index, pc, pv_parser, out, token_lists, database_file>>

\* x.append(y), once the file is read
DbAppend ==
    /\ pc = "db"
    /\ database_file.done
    /\ \E x, y \in {"a", "b"} :
          /\ database' = [database EXCEPT ![x] = append(database[x], database[y])]
          /\ hist' = [hist EXCEPT !.last = [op |-> "append", self |-> x, db |-> y]]
    /\ UNCHANGED <<file_list, file_index, pc, pv_parser, out, token_lists, database_file>>

RecordNext == DbNextRecord \/ DbWriteRecord

RecordSpec == RecordInit /\ [][RecordNext]_vars

DbNext == DbNextRecord \/ DbAddRecord \/ DbAppend

DbSpec == DbInit /\ [][DbNext]_vars

(***************************************************************************)
(* ReadSpec: a file of any lines of a database file, in any order, is read  *)
(* with next_record to its end.                                             *)
(***************************************************************************)
MaxDbLines == 4

\* record(ai,"r1") {
D_start_r1 == <<"r", "e", "c", "o", "r", "d", "(", "a", "i", ",", "\"", "r", "1", "\"", ")", " ", "{">>

\* record(bo,"r2") {
D_start_r2 == <<"r", "e", "c", "o", "r", "d", "(", "b", "o", ",", "\"", "r", "2", "\"", ")", " ", "{">>

\*     field(VAL,"1")
D_field == <<" ", " ", " ", " ", "f", "i", "e", "l", "d", "(", "V", "A", "L", ",", "\"", "1", "\"", ")">>

\* }
D_end == <<"}">>

\* the '}' between blanks
D_end_blanks == <<" ", " ", "}", " ", " ">>

\* };
D_other == <<"}", ";">>

\*     field(VAL)
D_field_no_value == <<" ", " ", " ", " ", "f", "i", "e", "l", "d", "(", "V", "A", "L", ")">>

DbLines == {D_start_r1, D_start_r2, D_field, D_end, D_end_blanks, D_other, D_field_no_value}

ReadInputs == {<<File(ls)>> : ls \in SeqsUpTo(DbLines, MaxDbLines)}

ReadInit ==
    /\ file_list \in ReadInputs
    /\ file_index = 1
    /\ pc = "read"
    /\ pv_parser = PvParser
    /\ out = <<>>
    /\ hist = NoDbHistory
    /\ token_lists = <<>>
    /\ database_file = DatabaseFile(file_list[1].lines)
    /\ database = [a |-> EpicsDatabase, b |-> EpicsDatabase]

ReadNext == DbNextRecord

ReadSpec == ReadInit /\ [][ReadNext]_vars

\* the program has ended: every file was handled, or an exception ended it
Done == (pc = "main" /\ file_index > Len(file_list)) \/ pc = "traceback"

(***************************************************************************)
(* What the properties speak of                                            *)
(***************************************************************************)
\* the texts of the diagnostics of kind kind among msgs
Texts(msgs, kind) ==
    [i \in 1..Len(SelectSeq(msgs, LAMBDA m : m.kind = kind)) |->
        SelectSeq(msgs, LAMBDA m : m.kind = kind)[i].text]

\* how often x occurs in seq
Count(seq, x) == Cardinality({i \in 1..Len(seq) : seq[i] = x})

\* the members of a set of numbers, in increasing order
Sorted(S) == [k \in 1..Cardinality(S) |-> CHOOSE i \in S : Cardinality({j \in S : j < i}) = k - 1]

\* the run is over and its only file held the one line
RanAlone(line) == Done /\ pc = "main" /\ file_list = <<File(<<line>>)>>

\* the diagnostics printed for the file at position k of the command line
Diagnostics(k) == SelectSeq(out, LAMBDA m : m.file = k)

\* the diagnostics a parser just constructed prints for that file
FreshDiagnostics(k) == pv_file(Enter(PvParser, <<>>, NoHistory), k, file_list[k].lines).out

(***************************************************************************)
(* The grammar of spec.md section 4.3 over token identifiers.  A position   *)
(* is an index into ids; 0 says that the production does not match.         *)
(***************************************************************************)
IdAt(ids, p) == IF p >= 1 /\ p <= Len(ids) THEN ids[p] ELSE TOKEN_NONE

SkipId(ids, p, id) == IF IdAt(ids, p) = id THEN p + 1 ELSE p

\* count? and index?: '[' INTEGER ']'
SkipBracket(ids, p) ==
    IF /\ IdAt(ids, p) = TOKEN_LEFT_BRACKET
       /\ IdAt(ids, p + 1) = TOKEN_INTEGER
       /\ IdAt(ids, p + 2) = TOKEN_RIGHT_BRACKET
    THEN p + 3 ELSE p

\* the number of tokens of the scale at p: ('*' | '/') number, '/' unit, a
\* bare number or a bare unit; 0 if there is none
ScaleLen(ids, p) ==
    IF IdAt(ids, p) = TOKEN_TIMES /\ IdAt(ids, p + 1) \in {TOKEN_INTEGER, TOKEN_FLOAT} THEN 2
    ELSE IF /\ IdAt(ids, p) = TOKEN_DIVIDED
            /\ IdAt(ids, p + 1) \in {TOKEN_INTEGER, TOKEN_FLOAT, TOKEN_UNIT} THEN 2
    ELSE IF IdAt(ids, p) \in {TOKEN_INTEGER, TOKEN_FLOAT, TOKEN_UNIT} THEN 1
    ELSE 0

\* value := index? (INTEGER|FLOAT|STRING) scale?, the index already skipped
ValueFrom(ids, p) ==
    IF IdAt(ids, p) \in {TOKEN_INTEGER, TOKEN_FLOAT, TOKEN_STRING}
    THEN p + 1 + ScaleLen(ids, p + 1) ELSE 0

ValueEnd(ids, p) == ValueFrom(ids, SkipBracket(ids, p))

RECURSIVE ListEnd(_, _)
RECURSIVE ListNext(_, _)
\* valuelist := value (',' value)*
ListEnd(ids, p) == ListNext(ids, ValueEnd(ids, p))

ListNext(ids, q) ==
    IF q = 0 THEN 0
    ELSE IF IdAt(ids, q) = TOKEN_COMMA THEN ListEnd(ids, q + 1)
    ELSE q

Closed(ids, q) == IF q # 0 /\ IdAt(ids, q) = TOKEN_RIGHT_BRACE THEN q + 1 ELSE 0

\* body := value | '{' valuelist '}'
BodyEnd(ids, p) ==
    IF IdAt(ids, p) = TOKEN_LEFT_BRACE THEN Closed(ids, ListEnd(ids, p + 1))
    ELSE ValueEnd(ids, p)

Ended(ids, q) == IF q # 0 /\ IdAt(ids, q) = TOKEN_SEMICOLON THEN q ELSE 0

Assigned(ids, p) == IF IdAt(ids, p) = TOKEN_EQUALS THEN Ended(ids, BodyEnd(ids, p + 1)) ELSE 0

Named(ids, p) == IF IdAt(ids, p) = TOKEN_PVNAME THEN Assigned(ids, SkipBracket(ids, p + 1)) ELSE 0

\* single := '%'? TYPE? NAME count? '=' body ';': the position of the ';' of
\* the single statement that ids begins with, 0 if it begins with none
SingleEnd(ids) == Named(ids, SkipId(ids, SkipId(ids, 1, TOKEN_PERCENT), TOKEN_TYPE))

(***************************************************************************)
(* C1.  Files are processed independently.                                  *)
(***************************************************************************)
\* C1: every call of pv_file begins with an empty lookahead cell and an
\* empty lexer buffer, and once a file has been handled the diagnostics
\* printed for it are those a parser just constructed prints for it.
C1_FilesIndependent ==
    /\ (pc = "main" /\ file_index <= Len(file_list))
          => (match(pv_parser.token, TOKEN_NONE) /\ pv_parser.lex.token_list = <<>>)
    /\ pc = "main"
          => \A k \in 1..(file_index - 1) :
                file_list[k].exists => Diagnostics(k) = FreshDiagnostics(k)

(***************************************************************************)
(* C2.  pv_single on a well-formed single statement.                        *)
(***************************************************************************)
\* C2: whenever the tokens ahead of pv_single begin with a single statement
\* of the grammar (a value may carry a scale), pv_single returns true, has
\* consumed the tokens up to and including the ';', and leaves the cell empty.
C2_WellFormedAccepted ==
    \A i \in 1..Len(hist.single) :
        SingleEnd(hist.single[i].ahead) # 0
            => /\ hist.single[i].outcome = "True"
               /\ hist.single[i].consumed = SingleEnd(hist.single[i].ahead)
               /\ hist.single[i].cell = TOKEN_NONE

(***************************************************************************)
(* C3.  Recovery from a faulty single statement.                            *)
(***************************************************************************)
\* C3: when the pass of the file loop over a single statement has ended in a
\* syntax error, exactly one error has been printed in the pass, the cell is
\* empty, the scratch state is at its defaults, the lexer buffer is empty,
\* and the lines that follow the statement's line are all still to be read,
\* so that the next item is parsed as if the faulty line had not been there.
C3_RecoveryResumes ==
    (/\ pc = "loop"
     /\ hist.iter.outcome = "PvSyntaxError"
     /\ hist.iter.first \notin {TOKEN_GROUP, TOKEN_SLEEP})
        => /\ Len(out) = hist.iter.out_before + 1
           /\ out[Len(out)].kind = "Error"
           /\ match(pv_parser.token, TOKEN_NONE)
           /\ pv_parser.single_data_type = TYPE_NONE
           /\ pv_parser.single_name = <<>>
           /\ pv_parser.single_count = 1
           /\ pv_parser.single_value_list = <<>>
           /\ pv_parser.single_index_list = <<>>
           /\ pv_parser.lex.token_list = <<>>
           /\ Len(pv_parser.f_in) = hist.iter.lines_after_first

(***************************************************************************)
(* C4.  Values of a statement of a string kind.                             *)
(***************************************************************************)
\* C4: when check_single has run for a statement of a string kind of which
\* at least one value parses as an integer or as a float, it has printed
\* exactly one 'type mismatch' warning.
C4_StringMismatchOnce ==
    \A i \in 1..Len(hist.check) :
        (/\ hist.check[i].single_data_type = TYPE_STRING
         /\ \E j \in 1..Len(hist.check[i].single_value_list) :
                \/ PyIntOk(hist.check[i].single_value_list[j])
                \/ PyFloatOk(hist.check[i].single_value_list[j]))
            => Count(hist.check[i].warnings, "type mismatch") = 1

(***************************************************************************)
(* C5.  A list shorter than the declared array.                             *)
(***************************************************************************)
\* C5: the file of the one line 'int a:b[3] = {1,2};' gets exactly one
\* diagnostic, the warning 'list of values does not match array size'.
C5_ShortListWarned ==
    RanAlone(L_short_list)
        => /\ Texts(out, "Error") = <<>>
           /\ Texts(out, "Warning") = <<"list of values does not match array size">>

(***************************************************************************)
(* A statement's own tokens: what the lexer handed to the parser between   *)
(* the start of pv_single and the ';' at which check_single ran.           *)
(***************************************************************************)
OwnTokens(c) == SubSeq(hist.drawn, c.first, c.last)

\* the position of the statement's '='
EqualsAt(toks) == CHOOSE p \in 1..Len(toks) : toks[p].id = TOKEN_EQUALS

\* the texts of the tokens at the positions S, in the order of the statement
Picked(toks, S) == [k \in 1..Cardinality(S) |-> toks[Sorted(S)[k]].value]

\* the type keyword the statement begins with, <<>> if it has none
OwnTypeWord(toks) ==
    IF toks[1].id = TOKEN_TYPE THEN toks[1].value
    ELSE IF toks[1].id = TOKEN_PERCENT /\ toks[2].id = TOKEN_TYPE THEN toks[2].value
    ELSE <<>>

IntegerKinds == {w_short, w_int, w_long}

FloatKinds == {w_float, w_double}

StringKinds == {w_string, w_char, w_enum}

OwnType(toks) ==
    IF OwnTypeWord(toks) \in IntegerKinds THEN TYPE_INTEGER
    ELSE IF OwnTypeWord(toks) \in FloatKinds THEN TYPE_FLOAT
    ELSE IF OwnTypeWord(toks) \in StringKinds THEN TYPE_STRING
    ELSE TYPE_NONE

\* the name before the '='
OwnName(toks) ==
    toks[CHOOSE p \in 1..EqualsAt(toks) : toks[p].id = TOKEN_PVNAME].value

\* the count in brackets before the '=', 1 if there is none
OwnCount(toks) ==
    IF toks[EqualsAt(toks) - 1].id = TOKEN_RIGHT_BRACKET
    THEN PyInt(toks[EqualsAt(toks) - 2].value) ELSE 1

\* the values after the '=': a value follows '=', '{', ',' or an index
OwnValues(toks) ==
    Picked(toks, {p \in (EqualsAt(toks) + 1)..Len(toks) :
        /\ toks[p].id \in {TOKEN_INTEGER, TOKEN_FLOAT, TOKEN_STRING}
        /\ toks[p - 1].id \in {TOKEN_EQUALS, TOKEN_LEFT_BRACE, TOKEN_COMMA, TOKEN_RIGHT_BRACKET}})

\* the indexes after the '=': the numbers that follow a '['
OwnIndexTexts(toks) ==
    Picked(toks, {p \in (EqualsAt(toks) + 1)..Len(toks) :
        toks[p].id = TOKEN_INTEGER /\ toks[p - 1].id = TOKEN_LEFT_BRACKET})

OwnIndexes(toks) == [k \in 1..Len(OwnIndexTexts(toks)) |-> PyInt(OwnIndexTexts(toks)[k])]

\* some member of seq occurs twice
Repeats(seq) == \E i, j \in 1..Len(seq) : i < j /\ seq[i] = seq[j]

(***************************************************************************)
(* C6.  Repeated indices.                                                   *)
(***************************************************************************)
\* C6: when check_single has run for a statement in which some explicit
\* index is written on two or more values, it has printed exactly one
\* 'repeated indices' warning; and the file of the one line
\* 'int a:b[2] = {[0]1,[0]2};' gets that warning as its only diagnostic.
C6_RepeatedOnce ==
    /\ \A i \in 1..Len(hist.check) :
          Repeats(OwnIndexes(OwnTokens(hist.check[i])))
              => Count(hist.check[i].warnings, "repeated indices") = 1
    /\ RanAlone(L_repeated)
          => /\ Texts(out, "Error") = <<>>
             /\ Texts(out, "Warning") = <<"repeated indices">>

\* a statement with the same index on three values has been checked
C6_Witness ==
    /\ RanAlone(L_repeated_thrice)
    /\ Len(hist.check) = 1
    /\ OwnIndexes(OwnTokens(hist.check[1])) = <<0, 0, 0>>
    /\ Count(hist.check[1].warnings, "repeated indices") = 1

(***************************************************************************)
(* C7.  A statement without a type keyword.                                 *)
(***************************************************************************)
\* the statement has no type keyword, its count is the number of its values
\* and every value has an index of its own
Untyped(toks) ==
    /\ OwnTypeWord(toks) = <<>>
    /\ OwnCount(toks) = Len(OwnValues(toks))
    /\ Len(OwnIndexes(toks)) = Len(OwnValues(toks))
    /\ ~Repeats(OwnIndexes(toks))

\* C7: when check_single has run for a statement without a type keyword
\* whose count is the number of its values, all with distinct explicit
\* indices, it has printed nothing; and the file of the one line
\* 'pv:name[3] = {[0]1,[1]2,[2]3};' gets no diagnostic.
C7_NoDiagnostics ==
    /\ \A i \in 1..Len(hist.check) :
          Untyped(OwnTokens(hist.check[i])) => hist.check[i].warnings = <<>>
    /\ RanAlone(L_untyped) => out = <<>>

\* C7, amended: for such a statement check_single prints exactly one
\* diagnostic, the warning 'type not defined'; the file of the one line
\* 'pv:name[3] = {[0]1,[1]2,[2]3};' gets that warning and nothing else.
C7_OnlyTypeNotDefined ==
    /\ \A i \in 1..Len(hist.check) :
          Untyped(OwnTokens(hist.check[i]))
              => hist.check[i].warnings = <<"type not defined">>
    /\ RanAlone(L_untyped)
          => /\ Texts(out, "Error") = <<>>
             /\ Texts(out, "Warning") = <<"type not defined">>

\* the untyped statement of three indexed values has been checked
C7_Witness ==
    /\ RanAlone(L_untyped)
    /\ Len(hist.check) = 1
    /\ Untyped(OwnTokens(hist.check[1]))
    /\ Len(OwnValues(OwnTokens(hist.check[1]))) = 3

(***************************************************************************)
(* C8.  Values of a statement of an integer or float kind.                  *)
(***************************************************************************)
\* C8: when check_single has run for a statement of an integer kind (short,
\* int, long), it has printed one 'type mismatch' warning if int() fails on
\* at least one of the statement's values and none if it fails on no value;
\* likewise for a float kind (float, double) and float(); and the file of the
\* one line 'int pv:name = 5;' gets no diagnostic.
C8_NumericMismatchOnce ==
    /\ \A i \in 1..Len(hist.check) :
          /\ OwnTypeWord(OwnTokens(hist.check[i])) \in IntegerKinds
                => Count(hist.check[i].warnings, "type mismatch")
                     = IF \E j \in 1..Len(OwnValues(OwnTokens(hist.check[i]))) :
                              ~PyIntOk(OwnValues(OwnTokens(hist.check[i]))[j])
                       THEN 1 ELSE 0
          /\ OwnTypeWord(OwnTokens(hist.check[i])) \in FloatKinds
                => Count(hist.check[i].warnings, "type mismatch")
                     = IF \E j \in 1..Len(OwnValues(OwnTokens(hist.check[i]))) :
                              ~PyFloatOk(OwnValues(OwnTokens(hist.check[i]))[j])
                       THEN 1 ELSE 0
    /\ RanAlone(L_int_ok) => out = <<>>

\* a statement of an integer kind with two values that int() does not take
\* has been checked
C8_Witness ==
    \E i \in 1..Len(hist.check) :
        /\ OwnTypeWord(OwnTokens(hist.check[i])) \in IntegerKinds
        /\ Len(OwnValues(OwnTokens(hist.check[i]))) >= 2
        /\ \A j \in 1..Len(OwnValues(OwnTokens(hist.check[i]))) :
              ~PyIntOk(OwnValues(OwnTokens(hist.check[i]))[j])
        /\ Count(hist.check[i].warnings, "type mismatch") = 1

(***************************************************************************)
(* C9.  The scale of a value.                                               *)
(***************************************************************************)
\* C9: whenever pv_single_scale is entered with a scale ahead ('*' and a
\* number, '/' and a number or unit, or a bare number or unit), it returns
\* true without raising, having consumed exactly the tokens of the scale.
C9_ScaleAccepted ==
    \A i \in 1..Len(hist.scale) :
        ScaleLen(hist.scale[i].ahead, 1) > 0
            => /\ hist.scale[i].outcome = "True"
               /\ hist.scale[i].consumed = ScaleLen(hist.scale[i].ahead, 1)

(***************************************************************************)
(* C10.  A statement is validated against its own data.                     *)
(***************************************************************************)
\* C10: whenever check_single has run for a statement, the type, name,
\* count, value list and index list it read were those of the statement's
\* own tokens (type none, count 1 and empty lists where it wrote none).
C10_OwnData ==
    \A i \in 1..Len(hist.check) :
        /\ hist.check[i].single_data_type = OwnType(OwnTokens(hist.check[i]))
        /\ hist.check[i].single_name = OwnName(OwnTokens(hist.check[i]))
        /\ hist.check[i].single_count = OwnCount(OwnTokens(hist.check[i]))
        /\ hist.check[i].single_value_list = OwnValues(OwnTokens(hist.check[i]))
        /\ hist.check[i].single_index_list = OwnIndexes(OwnTokens(hist.check[i]))

\* the second statement of 'group { int a:b = 1; int c:d = 2; }' has been
\* checked, with its own value only
C10_Witness ==
    /\ RanAlone(L_group_two)
    /\ Len(hist.check) = 2
    /\ hist.check[1].single_value_list = <<<<"1">>>>
    /\ hist.check[2].single_value_list = <<<<"2">>>>

(***************************************************************************)
(* C11.  The sleep statement.                                               *)
(***************************************************************************)
\* C11: whenever pv_sleep is entered with 'sleep' ';' ahead, it returns true
\* with both tokens consumed and the cell empty, having printed the one
\* warning 'no time specified in sleep'; with 'sleep', an INTEGER or FLOAT
\* and ';' ahead, it returns true with the three tokens consumed and the
\* cell empty, having printed nothing; the file of the one line 'sleep;'
\* gets that warning and no error, the file 'sleep 5;' no diagnostic.
C11_SleepAccepted ==
    /\ \A i \in 1..Len(hist.sleep) :
          /\ (/\ IdAt(hist.sleep[i].ahead, 1) = TOKEN_SLEEP
              /\ IdAt(hist.sleep[i].ahead, 2) = TOKEN_SEMICOLON)
                => /\ hist.sleep[i].outcome = "True"
                   /\ hist.sleep[i].consumed = 2
                   /\ hist.sleep[i].cell = TOKEN_NONE
                   /\ hist.sleep[i].warnings = <<"no time specified in sleep">>
          /\ (/\ IdAt(hist.sleep[i].ahead, 1) = TOKEN_SLEEP
              /\ IdAt(hist.sleep[i].ahead, 2) \in {TOKEN_INTEGER, TOKEN_FLOAT}
              /\ IdAt(hist.sleep[i].ahead, 3) = TOKEN_SEMICOLON)
                => /\ hist.sleep[i].outcome = "True"
                   /\ hist.sleep[i].consumed = 3
                   /\ hist.sleep[i].cell = TOKEN_NONE
                   /\ hist.sleep[i].warnings = <<>>
    /\ RanAlone(L_sleep)
          => /\ Texts(out, "Error") = <<>>
             /\ Texts(out, "Warning") = <<"no time specified in sleep">>
    /\ RanAlone(L_sleep_int) => out = <<>>
    /\ RanAlone(L_sleep_float) => out = <<>>

\* the file of the one line 'sleep;' has been handled
C11_Witness ==
    /\ RanAlone(L_sleep)
    /\ \E i \in 1..Len(hist.sleep) :
          hist.sleep[i].outcome = "True" /\ hist.sleep[i].warnings # <<>>

(***************************************************************************)
(* C12.  No failure leaves pv_file.                                         *)
(***************************************************************************)
\* C12: every pass of the loop of pv_file ends in a matched item, in the
\* end of the file or in a syntax error that the loop has caught; no
\* exception leaves pv_file, so the run is never ended by a traceback.
C12_NoFailureEscapes ==
    /\ pc # "traceback"
    /\ hist.iter.outcome \in {"", "item", "break", "PvSyntaxError"}

(***************************************************************************)
(* C13.  The loop of pv_file ends, and only at the end of the file.         *)
(***************************************************************************)
\* C13: every pass of the loop of pv_file begins with an empty cell and an
\* empty lexer buffer and draws at least one token from the lexer, so that
\* the loop ends on every file; a pass ends in an item, in a caught syntax
\* error or in the break; the break is taken only by a pass whose first
\* token is EOF, and the loop is left only by the break.
C13_LoopEndsAtEOF ==
    /\ hist.iter.outcome # ""
          => /\ hist.iter.clean
             /\ Len(hist.drawn) > hist.iter.drawn_before
             /\ hist.iter.outcome \in {"item", "PvSyntaxError", "break"}
             /\ hist.iter.outcome = "break" => hist.iter.first = TOKEN_EOF
    /\ pc \in {"close", "traceback"} => hist.iter.outcome = "break"

(***************************************************************************)
(* C14.  next_token at the end of the stream.                               *)
(***************************************************************************)
\* C14: once next_token has returned EOF, every later call returns EOF, and
\* a call that begins with the stream exhausted returns EOF, whatever calls
\* of next_token and flush came before.
C14_EOFRepeats ==
    /\ \A i \in 1..Len(hist.drawn) : \A j \in (i + 1)..Len(hist.drawn) :
          hist.drawn[i].id = TOKEN_EOF => hist.drawn[j].id = TOKEN_EOF
    /\ hist.spent => hist.drawn[Len(hist.drawn)].id = TOKEN_EOF

\* next_token has returned EOF for the third time, after the tokens of a
\* line
C14_Witness ==
    /\ pc = "lexer"
    /\ hist.spent
    /\ EofCalls = 3
    /\ Len(hist.drawn) > 3
    /\ pv_parser.lex.token_list = <<>>

(***************************************************************************)
(* C15.  Reserved words before names.                                       *)
(***************************************************************************)
ReservedKind(w) ==
    IF w \in TypeWords THEN TOKEN_TYPE
    ELSE IF w \in UnitWords THEN TOKEN_UNIT
    ELSE IF w = w_group THEN TOKEN_GROUP
    ELSE TOKEN_SLEEP

\* C15: when the scanned line is a reserved word between what stands before
\* it and whitespace, a symbol or the end of the line, the token made at the
\* word's place is of the word's reserved kind and carries the word, and no
\* PVNAME token of the line carries the word.
C15_ReservedFirst ==
    pc = "scanned"
        => \A b \in Befores : \A w \in ReservedWords : \A a \in Afters :
              file_list[1].lines[1] = b.text \o w \o a
                  => /\ Len(token_lists[file_list[1].lines[1]]) > b.tokens
                     /\ token_lists[file_list[1].lines[1]][b.tokens + 1]
                            = PvToken(ReservedKind(w), w)
                     /\ \A k \in 1..Len(token_lists[file_list[1].lines[1]]) :
                            token_lists[file_list[1].lines[1]][k] # PvToken(TOKEN_PVNAME, w)

\* the line 'a:b meters;' has been scanned: a name, the unit and ';'
C15_Witness ==
    /\ pc = "scanned"
    /\ file_list[1].lines[1] = <<"a", ":", "b", " ">> \o w_meters \o <<";">>
    /\ Ids(token_lists[file_list[1].lines[1]]) = <<TOKEN_PVNAME, TOKEN_UNIT, TOKEN_SEMICOLON>>

(***************************************************************************)
(* C16.  The braces of a group.                                             *)
(***************************************************************************)
\* C16: whenever pv_group is entered with 'group' ahead, it returns true or
\* raises a syntax error; it raises a syntax error if the token after
\* 'group' is not '{', and it returns true only with '}' as the last token
\* it consumed.
C16_BracesMandatory ==
    \A i \in 1..Len(hist.group) :
        IdAt(hist.group[i].ahead, 1) = TOKEN_GROUP
            => /\ hist.group[i].outcome \in {"True", "PvSyntaxError"}
               /\ IdAt(hist.group[i].ahead, 2) # TOKEN_LEFT_BRACE
                     => hist.group[i].outcome = "PvSyntaxError"
               /\ hist.group[i].outcome = "True"
                     => IdAt(hist.group[i].ahead, hist.group[i].consumed) = TOKEN_RIGHT_BRACE

(***************************************************************************)
(* C17.  A body without braces is one value.                                *)
(***************************************************************************)
\* the position of the first token of the body of the statement that ids
\* begins with, 0 if ids does not begin with head '='
BodyAt(ids) ==
    IF /\ IdAt(ids, SkipId(ids, SkipId(ids, 1, TOKEN_PERCENT), TOKEN_TYPE)) = TOKEN_PVNAME
       /\ IdAt(ids, SkipBracket(ids, SkipId(ids, SkipId(ids, 1, TOKEN_PERCENT), TOKEN_TYPE) + 1))
             = TOKEN_EQUALS
    THEN SkipBracket(ids, SkipId(ids, SkipId(ids, 1, TOKEN_PERCENT), TOKEN_TYPE) + 1) + 1
    ELSE 0

\* ids begins with a statement whose body has no brace and whose first
\* value is followed by ',' or by a further value
BareList(ids) ==
    /\ BodyAt(ids) # 0
    /\ IdAt(ids, BodyAt(ids)) # TOKEN_LEFT_BRACE
    /\ IdAt(ids, SkipBracket(ids, BodyAt(ids))) \in {TOKEN_INTEGER, TOKEN_FLOAT, TOKEN_STRING}
    /\ IdAt(ids, SkipBracket(ids, BodyAt(ids)) + 1)
          \in {TOKEN_COMMA, TOKEN_INTEGER, TOKEN_FLOAT, TOKEN_STRING}

C18_IndexesNotNegative ==
    /\ \A k \in 1..Len(pv_parser.single_index_list) : pv_parser.single_index_list[k] >= 0
    /\ pv_parser.single_count >= 0
    /\ \A i \in 1..Len(hist.check) :
          /\ hist.check[i].single_count >= 0
          /\ \A k \in 1..Len(hist.check[i].single_index_list) :
                hist.check[i].single_index_list[k] >= 0

(***************************************************************************)
(* C19.  Reading then writing a record.                                     *)
(***************************************************************************)
\* the field lines among lines, in their order
FieldLines(lines) == SelectSeq(lines, LAMBDA l : HasPrefix(l, 1, <<" ", " ", " ", " ", "f", "i", "e", "l", "d", "(">>))

\* the k-th block of the lines of a file of blocks
BlockOf(lines, k) ==
    LET ends == Places(lines, <<"}">>)
        upto(n) == IF n = 0 THEN 0 ELSE CHOOSE i \in ends : Cardinality({j \in ends : j <= i}) = n
    IN  SubSeq(lines, upto(k - 1) + 1, upto(k))

\* C19: the lines that write_record writes for the record that next_record
\* yielded for a block hold the field lines of the block, every one of them
\* and in the order of the block.
C19_RoundTrip ==
    pc = "record" =>
        \A i \in 1..Len(hist.writes) :
            FieldLines(SubSeq(out, hist.writes[i].first, hist.writes[i].last))
                = FieldLines(BlockOf(file_list[1].lines, hist.writes[i].block))

(***************************************************************************)
(* C20.  append merges by record name.                                      *)
(***************************************************************************)
\* no element of the list twice
NoDuplicates(list) == \A i, j \in 1..Len(list) : list[i] = list[j] => i = j

\* what self.append(db) has made of self, called merged
Merged(self, db, merged) ==
    /\ record_count(merged) = Cardinality(Elements(self.record_names) \cup Elements(db.record_names))
    /\ Elements(self.record_names) \cap Elements(db.record_names) = {}
          => record_count(merged) = record_count(self) + record_count(db)
    /\ get_record_names(merged)
          = self.record_names
               \o SelectSeq(db.record_names, LAMBDA n : n \notin Elements(self.record_names))
    /\ \A n \in Elements(db.record_names) : get_record(merged, n) = get_record(db, n)
    /\ \A n \in Elements(self.record_names) \ Elements(db.record_names) :
          get_record(merged, n) = get_record(self, n)

\* C20: a step x.append(y) on databases whose name lists hold no name twice
\* leaves in x the names of x in their order, then the names of y that x did
\* not hold; the records of y, and the records of x of the other names;
\* record_count is the number of the names of both; and x.append(x) leaves
\* the name list and record_count of x as they were.
C20_AppendMerges ==
    [][(/\ hist'.last.op = "append"
        /\ NoDuplicates(database[hist'.last.self].record_names)
        /\ NoDuplicates(database[hist'.last.db].record_names))
         => /\ Merged(database[hist'.last.self], database[hist'.last.db],
                      database'[hist'.last.self])
            /\ hist'.last.self = hist'.last.db
                  => /\ record_count(database'[hist'.last.self])
                          = record_count(database[hist'.last.self])
                     /\ get_record_names(database'[hist'.last.self])
                          = get_record_names(database[hist'.last.self])]_vars

\* a, that held the first r1 of the file, has got b appended, that held r2
\* and another r1: a holds r1, then r2, and its r1 is the one of b
C20_Witness ==
    /\ pc = "db"
    /\ hist.last = [op |-> "append", self |-> "a", db |-> "b"]
    /\ database.a.record_names = <<<<"r", "1">>, <<"r", "2">>>>
    /\ database.b.record_names = <<<<"r", "2">>, <<"r", "1">>>>
    /\ database.a.records[<<"r", "1">>].type = <<"b", "o">>
    /\ file_list[1].lines[1] = <<"r", "e", "c", "o", "r", "d", "(", "a", "i", ",", "\"", "r", "1", "\"", ")", " ", "{">>

(***************************************************************************)
(* C21.  A production that reports no match has consumed nothing.           *)
(***************************************************************************)
\* C21: whenever pv_single returns false it has consumed no token, and the
\* cell holds the token that was first ahead when pv_single was entered.
C21_NoMatchNothingConsumed ==
    \A i \in 1..Len(hist.single) :
        hist.single[i].outcome = "False"
            => /\ hist.single[i].consumed = 0
               /\ hist.single[i].cell = IdAt(hist.single[i].ahead, 1)

(***************************************************************************)
(* C22.  A character that no pattern matches.                               *)
(***************************************************************************)
\* characters that no pattern of the lexer holds
StrayChars == {"!", "@", "&"}

\* no pattern of the table matches at position p of line
NoPatternAt(line, p) ==
    \A i \in 1..Len(lexer_patterns) : ReMatch(lexer_patterns[i].re, line, p) = 0

\* list holds an ERROR token: it is the last one, it carries the one
\* character at a position p where no pattern matches, and the tokens before
\* it are the tokens of the text before p
ErrorLast(line, list) ==
    /\ \A k \in 1..Len(list) : list[k].id = TOKEN_ERROR => k = Len(list)
    /\ \E p \in 1..Len(line) :
          /\ list[Len(list)].value = <<line[p]>>
          /\ NoPatternAt(line, p)
          /\ SubSeq(list, 1, Len(list) - 1) = _get_token_list(SubSeq(line, 1, p - 1))

\* the tokens drawn in the last pass of the loop of pv_file
DrawnInPass == SubSeq(hist.drawn, hist.iter.drawn_before + 1, Len(hist.drawn))

\* the calls of the productions that the history notes
Productions == hist.single \o hist.scale \o hist.group

\* C22: the buffer of a line with an ERROR token ends with it, the token
\* carries the one offending character and the tokens before it are those of
\* the text before it; a line with a stray character outside strings and
\* comments has an ERROR token; the pass of the parser that draws an ERROR
\* token draws nothing after it and ends in a syntax error printed at that
\* character; and no production returns with an ERROR token in the cell.
C22_ErrorTokenEndsLine ==
    /\ \A line \in DOMAIN token_lists :
          /\ (\E k \in 1..Len(token_lists[line]) : token_lists[line][k].id = TOKEN_ERROR)
                => ErrorLast(line, token_lists[line])
          /\ (/\ \E p \in 1..Len(line) : line[p] \in StrayChars
              /\ \A p \in 1..Len(line) : line[p] \notin {"\"", "#"})
                => \E k \in 1..Len(token_lists[line]) : token_lists[line][k].id = TOKEN_ERROR
    /\ pc \in {"main", "loop", "close"}
          => \A k \in 1..Len(DrawnInPass) :
                DrawnInPass[k].id = TOKEN_ERROR
                    => /\ k = Len(DrawnInPass)
                       /\ hist.iter.outcome = "PvSyntaxError"
                       /\ out[Len(out)].kind = "Error"
                       /\ out[Len(out)].at = DrawnInPass[k].value
    /\ \A i \in 1..Len(Productions) :
          Productions[i].outcome # "PvSyntaxError" => Productions[i].cell # TOKEN_ERROR

\* 'int a:b = 1; @' has run: the statement was checked, then the '@' gave
\* the one syntax error
C22_Witness ==
    /\ RanAlone(L_stray_after)
    /\ Len(hist.check) = 1
    /\ Len(Texts(out, "Error")) = 1
    /\ out[Len(out)].at = <<"@">>
    /\ Ids(token_lists[L_stray_after])
          = <<TOKEN_TYPE, TOKEN_PVNAME, TOKEN_EQUALS, TOKEN_INTEGER, TOKEN_SEMICOLON, TOKEN_ERROR>>

(***************************************************************************)
(* C23.  The one-token lookahead cell.                                      *)
(***************************************************************************)
RECURSIVE Streams(_, _)
\* the tokens the lexer makes of the files fl from the k-th on, file after
\* file, each ending with its EOF
Streams(fl, k) ==
    IF k > Len(fl) THEN <<>>
    ELSE IF fl[k].exists THEN LexLines(fl[k].lines) \o Streams(fl, k + 1)
    ELSE Streams(fl, k + 1)

RECURSIVE Within(_, _, _, _)
\* seq from its i-th element on is found in stream from its j-th element on,
\* in the same order
Within(seq, i, stream, j) ==
    IF i > Len(seq) THEN TRUE
    ELSE IF j > Len(stream) THEN FALSE
    ELSE IF seq[i] = stream[j] THEN Within(seq, i + 1, stream, j + 1)
    ELSE Within(seq, i, stream, j + 1)

\* the tokens of a sequence that are not EOF (next_token returns EOF again
\* after an EOF that error recovery discarded)
NotEOF(tokens) == SelectSeq(tokens, LAMBDA tk : tk.id # TOKEN_EOF)

\* get_token called twice in the parser state s: the second call returns the
\* token of the first and draws nothing, and the first draws one token at
\* most, none when the cell is filled
CellHeld(s) ==
    /\ get_token(get_token(s)).token = get_token(s).token
    /\ get_token(get_token(s)).hist.drawn = get_token(s).hist.drawn
    /\ Len(get_token(s).hist.drawn) <= Len(s.hist.drawn) + 1
    /\ ~match(s.token, TOKEN_NONE) => get_token(s).hist.drawn = s.hist.drawn

\* C23: get_token called again returns the same token and draws nothing; the
\* tokens drawn into the cell are tokens of the files in source order; and
\* when the run has ended with no syntax error, they are all the tokens of
\* all the files.
C23_LookaheadDiscipline ==
    /\ pc \in {"loop", "close"} => CellHeld(Enter(pv_parser, out, hist))
    /\ pc # "traceback" => Within(NotEOF(hist.drawn), 1, NotEOF(Streams(file_list, 1)), 1)
    /\ (Done /\ pc = "main" /\ Texts(out, "Error") = <<>>)
          => hist.drawn = Streams(file_list, 1)

(***************************************************************************)
(* C24.  check_single runs once for a statement parsed through its ';'.     *)
(***************************************************************************)
\* the calls of pv_single that returned true
Accepted == SelectSeq(hist.single, LAMBDA r : r.outcome = "True")

\* C24: check_single has run as often as pv_single has returned true, the
\* k-th run belonging to the k-th such call: it began with the ';' of that
\* statement in the cell, the ';' being the last token the statement drew and
\* consumed, and the call has left the cell empty, warnings or not; no run of
\* check_single belongs to a call of pv_single that ended otherwise.
C24_CheckedOncePerStatement ==
    /\ Len(hist.check) = Len(Accepted)
    /\ \A k \in 1..Len(hist.check) :
          /\ hist.check[k].first = Accepted[k].start + 1
          /\ hist.check[k].cell = TOKEN_SEMICOLON
          /\ hist.check[k].last = Accepted[k].start + Accepted[k].consumed
          /\ hist.drawn[hist.check[k].last].id = TOKEN_SEMICOLON
          /\ Accepted[k].cell = TOKEN_NONE
    /\ \A i \in 1..Len(hist.single) :
          hist.single[i].outcome # "True"
              => \A k \in 1..Len(hist.check) :
                    hist.check[k].first # hist.single[i].start + 1

\* 'int a:b[3] = 1, 2;' then 'float a:b = 2.5' without its ';': the first
\* statement was checked once, with a warning, and accepted; the second was
\* abandoned with a syntax error and not checked
C24_Witness ==
    /\ Done /\ pc = "main"
    /\ Len(hist.single) >= 2
    /\ hist.single[1].outcome = "True"
    /\ hist.single[2].outcome = "PvSyntaxError"
    /\ Len(hist.check) = 1
    /\ hist.check[1].warnings # <<>>

(***************************************************************************)
(* C25.  next_record is a reader of two states.                             *)
(***************************************************************************)
RECURSIVE OpenAt(_, _)
\* the reader of two states that has read the first p of the lines: 0 in
\* state START, the position of the record start line in state RECORD
OpenAt(lines, p) ==
    IF p = 0 THEN 0
    ELSE IF OpenAt(lines, p - 1) = 0
         THEN IF lines[p] \in {D_start_r1, D_start_r2} THEN p ELSE 0
         ELSE IF lines[p] \in {D_end, D_end_blanks} THEN 0 ELSE OpenAt(lines, p - 1)

\* the positions of the lines that are only '}' and are read in state RECORD
Closings(lines) ==
    {p \in 1..Len(lines) : OpenAt(lines, p - 1) # 0 /\ lines[p] \in {D_end, D_end_blanks}}

\* the record of the block that the line at position p closes, every line
\* between its start line and p ignored but the field lines
BlockRecord(lines, p) ==
    LET start == OpenAt(lines, p - 1)
        fields == Cardinality({i \in (start + 1)..(p - 1) : lines[i] = D_field})
    IN  [name |-> IF lines[start] = D_start_r1 THEN <<"r", "1">> ELSE <<"r", "2">>,
         type |-> IF lines[start] = D_start_r1 THEN <<"a", "i">> ELSE <<"b", "o">>,
         field_names |-> [i \in 1..fields |-> <<"V", "A", "L">>],
         field_values |-> IF fields = 0 THEN <<>> ELSE Put(<<>>, <<"V", "A", "L">>, <<"1">>)]

\* the lines of the file that next_record has read
LinesRead == Len(file_list[1].lines) - Len(database_file.f)

\* next_record has yielded, in the order of the file, the records of the
\* blocks closed among the lines it has read, each when it read the '}'
YieldedAsRead ==
    /\ [i \in 1..Len(hist.log) |-> hist.log[i].at]
          = Sorted({p \in Closings(file_list[1].lines) : p <= LinesRead})
    /\ \A i \in 1..Len(hist.log) :
          hist.log[i].record = BlockRecord(file_list[1].lines, hist.log[i].at)

\* C25: next_record reads every file to its end without an exception; the
\* records it has yielded are, in the order of the file, those of the lines
\* that are only '}' and were read in state RECORD, one at each such line and
\* none elsewhere; the record is that of the start line that opened the
\* block, with the fields of the field lines up to the '}', whatever other
\* lines and record start lines stand between; a block with no '}' yields
\* nothing.
C25_TwoStateReader ==
    pc = "read" =>
        /\ database_file.exc = ""
        /\ database_file.done => LinesRead = Len(file_list[1].lines)
        /\ YieldedAsRead

(***************************************************************************)
(* C26.  INTEGER tokens and the integers of check_single.                   *)
(***************************************************************************)
\* the texts of the INTEGER tokens among toks
IntegerTexts(toks) == {toks[p].value : p \in {q \in 1..Len(toks) : toks[q].id = TOKEN_INTEGER}}

\* C26: whenever check_single has run for a statement of a declared integer
\* type whose values are all texts of INTEGER tokens of the statement, it
\* has not printed 'type mismatch'.
C26_IntegerTokensAccepted ==
    \A i \in 1..Len(hist.check) :
        (/\ hist.check[i].single_data_type = TYPE_INTEGER
         /\ Elements(hist.check[i].single_value_list) \subseteq IntegerTexts(OwnTokens(hist.check[i])))
            => Count(hist.check[i].warnings, "type mismatch") = 0

(***************************************************************************)
(* C27.  Recovery abandons the line of the faulty statement only.           *)
(***************************************************************************)
\* C27: when the run on the one file of two lines, 'float a:b = 2.5' with
\* its ';' missing and a complete well-formed single statement, is over, one
\* syntax error has been printed and check_single has run once, for the
\* statement of the second line.
C27_NextLineStillParsed ==
    \A next \in {L_int_ok, L_string_5} :
        (Done /\ pc = "main" /\ file_list = <<File(<<L_no_semicolon, next>>)>>)
            => /\ Len(Texts(out, "Error")) = 1
               /\ Len(hist.check) = 1
               /\ OwnTokens(hist.check[1]) = _get_token_list(Strip(next))
               /\ hist.check[1].single_name = <<"p", "v", ":", "n", "a", "m", "e">>

(***************************************************************************)
(* C28.  The pair of get_last_line.                                         *)
(***************************************************************************)
\* C28: whenever the lexer has tokenized a line of the file, the number that
\* get_last_line returns is the position in the file, every line counted,
\* of the line whose text it returns.
C28_LastLineConsistent ==
    (pc = "lexer" /\ get_last_line(pv_parser.lex)[2] # <<>>)
        => /\ get_last_line(pv_parser.lex)[1] \in 1..Len(file_list[1].lines)
           /\ Strip(file_list[1].lines[get_last_line(pv_parser.lex)[1]])
                 = get_last_line(pv_parser.lex)[2]

(***************************************************************************)
(* C29.  One STRING token for each quoted string.                           *)
(***************************************************************************)
\* the STRING tokens among tokens
Strings(tokens) == SelectSeq(tokens, LAMBDA tk : tk.id = TOKEN_STRING)

\* C29: the buffer of 'string c:d[2] = {"x", "y"};' holds the two STRING
\* tokens "x" and "y" with a COMMA between them, and when the run on the
\* file of that one line is over, check_single has run for the statement
\* with the two strings as its values.
C29_OneTokenPerString ==
    /\ L_two_strings \in DOMAIN token_lists
          => /\ Strings(token_lists[L_two_strings])
                   = <<PvToken(TOKEN_STRING, <<"\"", "x", "\"">>), PvToken(TOKEN_STRING, <<"\"", "y", "\"">>)>>
             /\ Ids(token_lists[L_two_strings])
                   = <<TOKEN_TYPE, TOKEN_PVNAME, TOKEN_LEFT_BRACKET, TOKEN_INTEGER,
                       TOKEN_RIGHT_BRACKET, TOKEN_EQUALS, TOKEN_LEFT_BRACE, TOKEN_STRING,
                       TOKEN_COMMA, TOKEN_STRING, TOKEN_RIGHT_BRACE, TOKEN_SEMICOLON>>
    /\ RanAlone(L_two_strings)
          => /\ Len(hist.check) = 1
             /\ hist.check[1].single_value_list = <<<<"\"", "x", "\"">>, <<"\"", "y", "\"">>>>

(***************************************************************************)
(* C30.  The name lists and the dictionaries.                               *)
(***************************************************************************)
\* the list holds every key of the dictionary once and nothing else
ListsKeys(list, dict) == NoDuplicates(list) /\ Elements(list) = DOMAIN dict

\* the fields of a record as add_field has left them
FieldsListed(record) == ListsKeys(record.field_names, record.field_values)

\* C30: after the calls of add_record and append on the databases a and b,
\* the name list of each holds the keys of its record dictionary, every one
\* once, and record_count is the length of get_record_names; after the
\* calls of add_field on the record that next_record is building, its list
\* of field names holds the keys of its field values, every one once.
C30_NamesAreKeys ==
    /\ pc = "db" =>
          \A x \in {"a", "b"} :
              /\ ListsKeys(get_record_names(database[x]), database[x].records)
              /\ record_count(database[x]) = Len(get_record_names(database[x]))
              /\ \A n \in DOMAIN database[x].records : FieldsListed(database[x].records[n])
    /\ (pc \in {"db", "read"} /\ database_file.record # None)
          => FieldsListed(database_file.record[1])

=============================================================================
